---- MODULE Spec2Model ----
(***************************************************************************)
(* Model of the weather / river-gauge browser application: the nearest-    *)
(* candidate scans of App.tsx (water-temperature entry, fallback forecast  *)
(* station), the haversine distance they use, and calculateTrend.          *)
(*                                                                         *)
(* Representation.  A JavaScript value that may be null or undefined is a  *)
(* sequence of length at most one: <<>> is null/undefined, <<v>> is v.     *)
(* Coordinates are whole degrees on a grid of multiples of 60, on which    *)
(* every sine and cosine of the haversine formula is rational, so the      *)
(* formula is evaluated exactly.                                           *)
(***************************************************************************)
EXTENDS Integers, Sequences, FiniteSets, TLC

\* ------------------------------------------------------------------ bounds

\* Longest station list of the hydrological data base.
MaxStations == 3

\* ------------------------------------------------------------ value helpers

Null == <<>>

Some(x) == <<x>>

IsNull(o) == o = <<>>

\* JavaScript `x || 0` on an optional number.
OrZero(o) == IF o = <<>> THEN 0 ELSE o[1]

\* JavaScript truthiness of an optional number: undefined, null and 0 are falsy.
Truthy(o) == o # <<>> /\ o[1] # 0

\* JavaScript `a || b` on optional numbers.
OrElse(a, b) == IF Truthy(a) THEN a ELSE b

Abs(x) == IF x < 0 THEN -x ELSE x

\* ------------------------------------------------------------------ geometry

\* The coordinates stations are placed on.
Points == { <<0, 0>>, <<0, -60>>, <<0, 180>>, <<60, 60>> }

\* 2 * cos(deg) for deg a multiple of 60.
Cos2(deg) ==
  LET m == deg % 360
  IN  CASE m = 0 -> 2
        [] m \in {60, 300} -> 1
        [] m \in {120, 240} -> -1
        [] m = 180 -> -2

\* 16 * a, where a = sin^2(dLat/2) + cos(lat1) cos(lat2) sin^2(dLon/2) and
\* sin^2(x/2) = (1 - cos x) / 2.
HaversineA16(lat1, lon1, lat2, lon2) ==
  4 * (2 - Cos2(lat2 - lat1))
    + Cos2(lat1) * Cos2(lat2) * (2 - Cos2(lon2 - lon1))

\* R * 2 * atan2(sqrt(a), sqrt(1 - a)) in whole kilometres for a = k / 16,
\* k = 0 .. 16, with R = 6371 km; entry k + 1 is the value at k / 16.
HaversineKm ==
  << 0, 3220, 4605, 5706, 6672, 7559, 8398, 9209, 10008, 10806, 11617,
     12457, 13343, 14309, 15411, 16795, 20015 >>

\* The distance with the sign of the first longitude lost.
calculateDistanceMirrored(lat1, lon1, lat2, lon2) ==
  HaversineKm[HaversineA16(lat1, -lon1, lat2, lon2) + 1]

\* The distance with the second latitude taken as the equator.
calculateDistanceToEquator(lat1, lon1, lat2, lon2) ==
  HaversineKm[HaversineA16(lat1, lon1, 0, lon2) + 1]

calculateDistance(lat1, lon1, lat2, lon2) ==
  HaversineKm[HaversineA16(lat1, lon1, lat2, lon2) + 1]

\* ------------------------------------------------------------------- state

VARIABLES
  \* the hydrological data base behind the API: station i has statid i
  dbStations,
  \* React state of App read by the two effects
  user, coordinates, waterData, waterTemperatureVarId, waterLevelVarId,
  \* React state written by the water-temperature effect
  waterTemperatureData, waterTemperatureError, waterTemperatureLoading,
  \* loadWaterTemperatureData: position, closure flag, return point, locals
  wtPc, wtCancelled, wtExit, validMeasurements, nearestEntry, wtMinDistance,
  \* React state written by the forecast effect
  forecastData, forecastError, forecastStationId, forecastLoading,
  \* loadForecast: position, closure flag, return point, locals (testForecast
  \* is the way the last probe of the fallback settled)
  fcPc, fcCancelled, fcExit, allStations, stationsWithForecast, probeIndex,
  testForecast, currentLat, currentLon, nearestStation, fcMinDistance,
  \* calculateTrend: the browser's clock and time zone, the arguments, the
  \* position, the locals and the returned value
  now, tzOffset, forecasts, currentWaterLevel,
  trPc, dailyForecasts, futureDays, trend,
  \* one call of an exported API function: the build's credentials, the
  \* function called and its (trimmed) query, its position, the network
  \* requests issued, the HTTP response and the way the returned promise
  \* settled
  apiToken, apiKey, apiView, apiQuery, apiPc, apiRequests, apiResponse,
  apiResult,
  \* React state of App behind the location form and the weather section
  location, locationQuery, weatherData, weatherLoading, weatherError,
  \* the runs of loadWeather whose request is in flight, oldest first: the
  \* query asked and the run's closure flag
  weatherRuns,
  \* the suggestions of the location field; the debounce timer (its query
  \* and the time left, in steps of 100 ms), the searches in flight (query
  \* and closure flag), and the time since the field was last edited
  locationSuggestions, locationSuggestionLoading, locationSuggestionError,
  suggestTimer, suggestRuns, inputAge,
  \* the saved records as the listener delivered them, and the selection
  records, selectedRecordId,
  \* the user's record collection in the store, whether the listener is
  \* subscribed and has a snapshot to deliver, the calls of saveLocation
  \* whose addRecord is in flight, the save button's state, and the id of
  \* the reference the last addRecord resolved with
  dbRecords, listening, snapshotDue, saveRuns, isSaving, saveMessage,
  savedId,
  \* AuthProvider: the state flag, the flag as the callbacks of the last
  \* render closed over it, the provider calls in flight, and how the last
  \* call of signInWithGoogle / signOutUser went
  isAuthActionRunning, authRendered, authCalls, authLast,
  \* the details of the water-level station
  stationDetails

inputVars ==
  << dbStations, user, coordinates, waterData, waterTemperatureVarId,
     waterLevelVarId >>

wtVars ==
  << waterTemperatureData, waterTemperatureError, waterTemperatureLoading,
     wtPc, wtCancelled, wtExit, validMeasurements, nearestEntry,
     wtMinDistance >>

fcVars ==
  << forecastData, forecastError, forecastStationId, forecastLoading,
     fcPc, fcCancelled, fcExit, allStations, stationsWithForecast, probeIndex,
     testForecast, currentLat, currentLon, nearestStation, fcMinDistance >>

trendVars ==
  << now, tzOffset, forecasts, currentWaterLevel, trPc, dailyForecasts,
     futureDays, trend >>

apiVars ==
  << apiToken, apiKey, apiView, apiQuery, apiPc, apiRequests, apiResponse,
     apiResult >>

weatherVars ==
  << location, locationQuery, weatherData, weatherLoading, weatherError,
     weatherRuns >>

suggestVars ==
  << locationSuggestions, locationSuggestionLoading, locationSuggestionError,
     suggestTimer, suggestRuns, inputAge >>

recordVars == << records, selectedRecordId >>

storeVars == << dbRecords, listening, snapshotDue >>

saveVars == << saveRuns, isSaving, saveMessage, savedId >>

authVars == << isAuthActionRunning, authRendered, authCalls, authLast >>

appVars ==
  << weatherVars, suggestVars, recordVars, storeVars, saveVars, authVars,
     stationDetails >>

vars == << inputVars, wtVars, fcVars, trendVars, apiVars, appVars >>

\* No API function is called on its own.
ApiIdle ==
  /\ apiToken = TRUE
  /\ apiKey = TRUE
  /\ apiView = "none"
  /\ apiQuery = ""
  /\ apiPc = "idle"
  /\ apiRequests = 0
  /\ apiResponse = Null
  /\ apiResult = Null

\* The location form is empty and no weather was asked for.
WeatherIdle ==
  /\ location = ""
  /\ locationQuery = ""
  /\ weatherData = Null
  /\ weatherLoading = FALSE
  /\ weatherError = Null
  /\ weatherRuns = <<>>

\* No suggestion is shown or searched for.
SuggestIdle ==
  /\ locationSuggestions = <<>>
  /\ locationSuggestionLoading = FALSE
  /\ locationSuggestionError = Null
  /\ suggestTimer = Null
  /\ suggestRuns = <<>>
  /\ inputAge = 0

\* No record is listed.
RecordsIdle ==
  /\ records = <<>>
  /\ selectedRecordId = Null

\* The store holds no record of the user, whose listener has delivered the
\* empty list.
StoreIdle ==
  /\ dbRecords = <<>>
  /\ listening = TRUE
  /\ snapshotDue = FALSE

\* No save is under way.
SaveIdle ==
  /\ saveRuns = <<>>
  /\ isSaving = FALSE
  /\ saveMessage = "none"
  /\ savedId = Null

\* No sign-in or sign-out is under way.
AuthIdle ==
  /\ isAuthActionRunning = FALSE
  /\ authRendered = FALSE
  /\ authCalls = <<>>
  /\ authLast = "none"

\* The form and the sections of the page outside the two effects are idle.
AppIdle ==
  /\ WeatherIdle
  /\ SuggestIdle
  /\ RecordsIdle
  /\ StoreIdle
  /\ SaveIdle
  /\ AuthIdle
  /\ stationDetails = Null

\* calculateTrend is not called.
TrendIdle ==
  /\ now = 0
  /\ tzOffset = 0
  /\ forecasts = <<>>
  /\ currentWaterLevel = Null
  /\ trPc = "idle"
  /\ dailyForecasts = <<>>
  /\ futureDays = <<>>
  /\ trend = Null

\* ------------------------------------------- water-temperature entry scan

\* entry.lat / entry.lon as the scan reads them (undefined becomes 0).
EntryLat(entry) == OrZero(entry.lat)

EntryLon(entry) == OrZero(entry.lon)

\* The scan's `continue` test: an entry at (0, 0) has no coordinate.
EntryHasCoordinate(entry) == ~(EntryLat(entry) = 0 /\ EntryLon(entry) = 0)

\* The comparison turned round: a farther entry replaces a nearer one.
EntryCloserReversed(distance, minDistance) ==
  IsNull(minDistance) \/ distance > minDistance[1]

\* `distance < minDistance`, minDistance starting at Infinity (<<>>).
EntryCloser(distance, minDistance) ==
  IsNull(minDistance) \/ distance < minDistance[1]

\* The filter of loadWaterTemperatureData: an entry is valid when it has a
\* last measurement whose value is neither null nor undefined.
IsValidMeasurement(entry) ==
  /\ Len(entry.measurements) > 0
  /\ ~IsNull(entry.measurements[Len(entry.measurements)].value)

RECURSIVE FilterValid(_)
FilterValid(entries) ==
  IF entries = <<>> THEN <<>>
  ELSE IF IsValidMeasurement(Head(entries))
       THEN <<Head(entries)>> \o FilterValid(Tail(entries))
       ELSE FilterValid(Tail(entries))

\* The for-loop over validMeasurements from entry i on; acc holds the loop's
\* two variables nearestEntry and minDistance.
RECURSIVE NearestEntryScan(_, _, _, _)
NearestEntryScan(entries, ref, i, acc) ==
  IF i > Len(entries) THEN acc
  ELSE LET entry == entries[i]
           distance ==
             calculateDistance(ref.lat, ref.lon, EntryLat(entry), EntryLon(entry))
       IN  IF ~EntryHasCoordinate(entry)
           THEN NearestEntryScan(entries, ref, i + 1, acc)
           ELSE IF EntryCloser(distance, acc.minDistance)
                THEN NearestEntryScan(entries, ref, i + 1,
                       [nearestEntry |-> Some(entry), minDistance |-> Some(distance)])
                ELSE NearestEntryScan(entries, ref, i + 1, acc)

NearestEntry(entries, ref) ==
  NearestEntryScan(entries, ref, 1, [nearestEntry |-> Null, minDistance |-> Null])

\* ---------------------------------------------- the hydrological API's data

\* The body of water the stations of the data base lie on.
WaterName == "Duna"

\* getWaters: the list of water bodies, with or without the one waterData names.
WatersResponses ==
  { <<>>,
    << [waterid |-> 1, name |-> "Tisza"] >>,
    << [waterid |-> 1, name |-> "Tisza"], [waterid |-> 2, name |-> WaterName] >> }

\* A coordinate as a getmeas entry carries it: an absent coordinate arrives as
\* 0 or is left out, as `bare` says.
EntryCoordinate(x, bare) == IF bare /\ x = 0 THEN Null ELSE Some(x)

\* The measurement series of station i in a getmeas answer: `lack` names the
\* one station (if any) without a usable last value, `how` the way it lacks it.
EntryMeasurements(i, lack, how) ==
  IF i # lack THEN << [value |-> Some(10 + i)], [value |-> Some(12 + i)] >>
  ELSE IF how = "empty" THEN <<>>
  ELSE << [value |-> Some(10 + i)], [value |-> Null] >>

\* getMeasurements for the water body: one entry per station, in data-base order.
MeasurementsResponse(lack, how, bare) ==
  [ i \in 1 .. Len(dbStations) |->
      [ statid |-> i,
        lat |-> EntryCoordinate(dbStations[i].lat, bare),
        lon |-> EntryCoordinate(dbStations[i].lon, bare),
        measurements |-> EntryMeasurements(i, lack, how) ] ]

\* --------------------------------------------- water-temperature effect

\* The user-facing messages, in English.

WtErrNoWaterInfo == "no water body information found"

WtErrNoData == "no water temperature data on the water body"

WtErrNoCoordinates == "no water temperature data with valid coordinates"

WtErrFailed == "could not fetch the water temperature data"

\* The effect's guard: every input of the request is there.
WtEffectGuard ==
  /\ ~IsNull(user)
  /\ ~IsNull(coordinates)
  /\ ~IsNull(waterTemperatureVarId)
  /\ ~IsNull(waterData)
  /\ ~IsNull(waterData[1].water)

\* The `finally` block, after a path that set data and error to d and e when
\* the run is not cancelled; the function returns at return point x.
WtReturn(d, e, x) ==
  /\ wtPc' = "done"
  /\ wtExit' = x
  /\ IF wtCancelled
     THEN UNCHANGED << waterTemperatureData, waterTemperatureError,
                       waterTemperatureLoading >>
     ELSE /\ waterTemperatureData' = d
          /\ waterTemperatureError' = e
          /\ waterTemperatureLoading' = FALSE

\* The effect runs: it clears the data when an input is missing, and
\* otherwise starts loadWaterTemperatureData up to its first await.
WtEffect ==
  /\ wtPc = "idle"
  /\ IF ~WtEffectGuard
     THEN /\ waterTemperatureData' = Null
          /\ wtPc' = "skipped"
          /\ UNCHANGED << waterTemperatureError, waterTemperatureLoading,
                          wtCancelled, wtExit, validMeasurements, nearestEntry,
                          wtMinDistance >>
     ELSE /\ wtCancelled' = FALSE
          /\ waterTemperatureLoading' = TRUE
          /\ waterTemperatureError' = Null
          /\ wtPc' = "getWaters"
          /\ UNCHANGED << waterTemperatureData, wtExit, validMeasurements,
                          nearestEntry, wtMinDistance >>
  /\ UNCHANGED << inputVars, fcVars, trendVars, apiVars, appVars >>

\* getWaters rejects, or getMeasurements rejects: the catch block.
WtRequestFails ==
  /\ wtPc \in {"getWaters", "getMeasurements"}
  /\ WtReturn(Null, Some(WtErrFailed), "catch")
  /\ UNCHANGED << wtCancelled, validMeasurements, nearestEntry, wtMinDistance >>
  /\ UNCHANGED << inputVars, fcVars, trendVars, apiVars, appVars >>

\* getWaters resolves: look the water body up by name, then ask for its
\* measurements.
WtWatersArrive ==
  /\ wtPc = "getWaters"
  /\ \E waters \in WatersResponses :
       IF \E k \in 1 .. Len(waters) : waters[k].name = waterData[1].water[1]
       THEN /\ wtPc' = "getMeasurements"
            /\ UNCHANGED << waterTemperatureData, waterTemperatureError,
                            waterTemperatureLoading, wtExit >>
       ELSE WtReturn(Null, Some(WtErrNoWaterInfo), "noWaterInfo")
  /\ UNCHANGED << wtCancelled, validMeasurements, nearestEntry, wtMinDistance >>
  /\ UNCHANGED << inputVars, fcVars, trendVars, apiVars, appVars >>

\* getMeasurements resolves: filter, scan for the nearest entry, store it.
WtMeasurementsArrive ==
  /\ wtPc = "getMeasurements"
  /\ \E lack \in 0 .. Len(dbStations), how \in {"empty", "null"}, bare \in BOOLEAN :
       LET valid == FilterValid(MeasurementsResponse(lack, how, bare))
           found == NearestEntry(valid, coordinates[1])
       IN  /\ validMeasurements' = valid
           /\ IF Len(valid) = 0
              THEN /\ UNCHANGED << nearestEntry, wtMinDistance >>
                   /\ WtReturn(Null, Some(WtErrNoData), "noValid")
              ELSE /\ nearestEntry' = found.nearestEntry
                   /\ wtMinDistance' = found.minDistance
                   /\ IF IsNull(found.nearestEntry)
                      THEN WtReturn(Null, Some(WtErrNoCoordinates), "noNearest")
                      ELSE WtReturn(found.nearestEntry, Null, "set")
  /\ UNCHANGED wtCancelled
  /\ UNCHANGED << inputVars, fcVars, trendVars, apiVars, appVars >>

\* The effect's cleanup: a dependency changed or the component unmounted
\* while the request was in flight.
WtCleanup ==
  /\ wtPc \in {"getWaters", "getMeasurements"}
  /\ ~wtCancelled
  /\ wtCancelled' = TRUE
  /\ UNCHANGED << waterTemperatureData, waterTemperatureError,
                  waterTemperatureLoading, wtPc, wtExit, validMeasurements,
                  nearestEntry, wtMinDistance >>
  /\ UNCHANGED << inputVars, fcVars, trendVars, apiVars, appVars >>

\* ------------------------------------------------ fallback station scan

\* `distance < minDistance` of the station loop.
StationCloser(distance, minDistance) == distance < minDistance

\* The for-loop over stationsWithForecast from station i on; acc holds the
\* loop's two variables nearestStation and minDistance.
RECURSIVE NearestStationScan(_, _, _, _, _)
NearestStationScan(stations, lat, lon, i, acc) ==
  IF i > Len(stations) THEN acc
  ELSE LET station == stations[i]
           distance == calculateDistance(lat, lon, station.lat, station.lon)
       IN  IF StationCloser(distance, acc.minDistance)
           THEN NearestStationScan(stations, lat, lon, i + 1,
                  [nearestStation |-> station, minDistance |-> distance])
           ELSE NearestStationScan(stations, lat, lon, i + 1, acc)

\* The scan starts from the first station and its distance.
NearestStation(stations, lat, lon) ==
  NearestStationScan(stations, lat, lon, 1,
    [ nearestStation |-> stations[1],
      minDistance |-> calculateDistance(lat, lon, stations[1].lat, stations[1].lon) ])

\* ------------------------------------------------------- forecast effect

\* slice(0, 10): the fallback probes the first ten stations only.
ProbeCap == 10

FcErrFailed == "could not fetch the forecast"

\* A forecast series: noon (UTC) of day 1 and of day 2, dates in minutes.
ForecastSeries ==
  << [date |-> 2160, value |-> 100], [date |-> 3600, value |-> 130] >>

\* getForecast answers for a station: no entry, an entry without samples, or
\* an entry with a series.
ForecastResponses(statid) ==
  { <<>>,
    << [statid |-> statid, forecasts |-> <<>>] >>,
    << [statid |-> statid, forecasts |-> ForecastSeries] >> }

\* getStations: the station list, or an answer of another shape (read as []).
StationsResponses ==
  { [ i \in 1 .. Len(dbStations) |->
        [statid |-> i, lat |-> dbStations[i].lat, lon |-> dbStations[i].lon] ],
    <<>> }

\* The whole array, whatever n is.
SliceAll(list, n) == list

\* array.slice(0, n)
Slice(list, n) == SubSeq(list, 1, IF Len(list) < n THEN Len(list) ELSE n)

\* allStations.filter(station => variableStations.some(vs => vs.statid === station.statid))
RECURSIVE FilterStations(_, _)
FilterStations(stations, ids) ==
  IF stations = <<>> THEN <<>>
  ELSE IF Head(stations).statid \in ids
       THEN <<Head(stations)>> \o FilterStations(Tail(stations), ids)
       ELSE FilterStations(Tail(stations), ids)

fcResult == << forecastData, forecastError, forecastStationId >>

fcScanLocals == << currentLat, currentLon, nearestStation, fcMinDistance >>

\* The guard without its test of waterData.
FcEffectGuardNoEntry == ~IsNull(user) /\ ~IsNull(waterLevelVarId)

\* The effect's guard.
FcEffectGuard ==
  ~IsNull(user) /\ ~IsNull(waterData) /\ ~IsNull(waterLevelVarId)

\* The `finally` block: the function returns at return point x.
FcFinally(x) ==
  /\ fcPc' = "done"
  /\ fcExit' = x
  /\ forecastLoading' = IF fcCancelled THEN forecastLoading ELSE FALSE

\* setForecastData(null); setForecastError(null); setForecastStationId(null)
FcSetAbsent ==
  /\ forecastData' = Null
  /\ forecastError' = Null
  /\ forecastStationId' = Null

\* The code after the candidate stations are known: give up without
\* candidates or without a reference coordinate, otherwise scan for the
\* nearest station and ask for its forecast.
FcChooseNearest(candidates) ==
  LET lat == OrElse(waterData[1].lat,
                    IF IsNull(coordinates) THEN Null ELSE Some(coordinates[1].lat))
      lon == OrElse(waterData[1].lon,
                    IF IsNull(coordinates) THEN Null ELSE Some(coordinates[1].lon))
  IN  /\ stationsWithForecast' = candidates
      /\ IF Len(candidates) = 0
         THEN /\ FcSetAbsent
              /\ FcFinally("noStations")
              /\ UNCHANGED fcScanLocals
         ELSE /\ currentLat' = lat
              /\ currentLon' = lon
              /\ IF ~Truthy(lat) \/ ~Truthy(lon)
                 THEN /\ FcSetAbsent
                      /\ FcFinally("noReference")
                      /\ UNCHANGED << nearestStation, fcMinDistance >>
                 ELSE LET found == NearestStation(candidates, lat[1], lon[1])
                      IN  /\ nearestStation' = Some(found.nearestStation)
                          /\ fcMinDistance' = Some(found.minDistance)
                          /\ fcPc' = "nearest"
                          /\ UNCHANGED << fcResult, forecastLoading, fcExit >>

\* The effect runs: it clears the data when an input is missing, and
\* otherwise starts loadForecast up to its first await.
FcEffect ==
  /\ fcPc = "idle"
  /\ IF ~FcEffectGuard
     THEN /\ forecastData' = Null
          /\ fcPc' = "skipped"
          /\ UNCHANGED << forecastError, forecastStationId, forecastLoading,
                          fcCancelled >>
     ELSE /\ fcCancelled' = FALSE
          /\ forecastLoading' = TRUE
          /\ forecastError' = Null
          /\ fcPc' = "home"
          /\ UNCHANGED << forecastData, forecastStationId >>
  /\ UNCHANGED << fcExit, allStations, stationsWithForecast, probeIndex,
                  testForecast, fcScanLocals >>
  /\ UNCHANGED << inputVars, wtVars, trendVars, apiVars, appVars >>

\* The home station's forecast arrives.
FcHomeResolves ==
  /\ fcPc = "home"
  /\ \E data \in ForecastResponses(waterData[1].statid) :
       IF fcCancelled
       THEN UNCHANGED fcResult
       ELSE /\ forecastData' = Some(data)
            /\ forecastStationId' = Some(waterData[1].statid)
            /\ UNCHANGED forecastError
  /\ FcFinally("home")
  /\ UNCHANGED << fcCancelled, allStations, stationsWithForecast, probeIndex,
                  testForecast, fcScanLocals >>
  /\ UNCHANGED << inputVars, wtVars, trendVars, apiVars, appVars >>

\* The home station's request rejects: with NO_FORECAST the fallback starts
\* by asking for the station list, any other error is shown.
FcHomeRejects ==
  /\ fcPc = "home"
  /\ \E message \in {"NO_FORECAST", "OVSZ API hiba"} :
       IF fcCancelled
       THEN /\ FcFinally("cancelled")
            /\ UNCHANGED fcResult
       ELSE IF message = "NO_FORECAST"
            THEN /\ fcPc' = "getStations"
                 /\ UNCHANGED << fcResult, forecastLoading, fcExit >>
            ELSE /\ forecastError' = Some(FcErrFailed)
                 /\ forecastStationId' = Null
                 /\ UNCHANGED forecastData
                 /\ FcFinally("error")
  /\ UNCHANGED << fcCancelled, allStations, stationsWithForecast, probeIndex,
                  testForecast, fcScanLocals >>
  /\ UNCHANGED << inputVars, wtVars, trendVars, apiVars, appVars >>

\* getStations resolves: ask which stations carry the variable.
FcStationsResolve ==
  /\ fcPc = "getStations"
  /\ \E stations \in StationsResponses : allStations' = stations
  /\ fcPc' = "getVariableStations"
  /\ UNCHANGED << fcResult, forecastLoading, fcCancelled, fcExit,
                  stationsWithForecast, probeIndex, testForecast,
                  fcScanLocals >>
  /\ UNCHANGED << inputVars, wtVars, trendVars, apiVars, appVars >>

\* getStations or the nearest station's getForecast rejects: the inner catch.
FcFallbackRejects ==
  /\ fcPc \in {"getStations", "nearest"}
  /\ IF fcCancelled THEN UNCHANGED fcResult ELSE FcSetAbsent
  /\ FcFinally("fallbackError")
  /\ UNCHANGED << fcCancelled, allStations, stationsWithForecast, probeIndex,
                  testForecast, fcScanLocals >>
  /\ UNCHANGED << inputVars, wtVars, trendVars, apiVars, appVars >>

\* getVariableStations settles (a rejection leaves the list empty): keep the
\* stations it names, or start probing the first stations one by one.
FcVariableStationsSettle ==
  /\ fcPc = "getVariableStations"
  /\ \E ids \in SUBSET (1 .. Len(allStations)) :
       LET named == FilterStations(allStations, ids)
       IN  IF Len(named) > 0
           THEN /\ FcChooseNearest(named)
                /\ UNCHANGED << probeIndex, testForecast >>
           ELSE IF Len(Slice(allStations, ProbeCap)) = 0
                THEN /\ FcChooseNearest(<<>>)
                     /\ UNCHANGED << probeIndex, testForecast >>
                ELSE /\ probeIndex' = 1
                     /\ UNCHANGED testForecast
                     /\ fcPc' = "probe"
                     /\ UNCHANGED << fcResult, forecastLoading, fcExit,
                                     stationsWithForecast, fcScanLocals >>
  /\ UNCHANGED << fcCancelled, allStations >>
  /\ UNCHANGED << inputVars, wtVars, trendVars, apiVars, appVars >>

\* The probe of station probeIndex settles: a non-empty series ends the
\* probing with that station, anything else moves on to the next one.
FcProbeSettles ==
  /\ fcPc = "probe"
  /\ \E outcome \in {"series", "empty", "reject"} :
       LET stationsToTry == Slice(allStations, ProbeCap)
       IN  /\ testForecast' = outcome
           /\ IF outcome = "series"
              THEN /\ FcChooseNearest(<<stationsToTry[probeIndex]>>)
                   /\ UNCHANGED probeIndex
              ELSE IF probeIndex < Len(stationsToTry)
                   THEN /\ probeIndex' = probeIndex + 1
                        /\ UNCHANGED << fcResult, forecastLoading, fcPc,
                                        fcExit, stationsWithForecast,
                                        fcScanLocals >>
                   ELSE /\ FcChooseNearest(<<>>)
                        /\ UNCHANGED probeIndex
  /\ UNCHANGED << fcCancelled, allStations >>
  /\ UNCHANGED << inputVars, wtVars, trendVars, apiVars, appVars >>

\* The nearest station's forecast arrives.
FcNearestResolves ==
  /\ fcPc = "nearest"
  /\ \E data \in ForecastResponses(nearestStation[1].statid) :
       IF fcCancelled
       THEN UNCHANGED fcResult
       ELSE /\ forecastData' = Some(data)
            /\ forecastStationId' = Some(nearestStation[1].statid)
            /\ forecastError' = Null
  /\ FcFinally("nearest")
  /\ UNCHANGED << fcCancelled, allStations, stationsWithForecast, probeIndex,
                  testForecast, fcScanLocals >>
  /\ UNCHANGED << inputVars, wtVars, trendVars, apiVars, appVars >>

\* The effect's cleanup while a request is in flight.
FcCleanup ==
  /\ fcPc \in {"home", "getStations", "getVariableStations", "probe", "nearest"}
  /\ ~fcCancelled
  /\ fcCancelled' = TRUE
  /\ UNCHANGED << fcResult, forecastLoading, fcPc, fcExit, allStations,
                  stationsWithForecast, probeIndex, testForecast,
                  fcScanLocals >>
  /\ UNCHANGED << inputVars, wtVars, trendVars, apiVars, appVars >>

\* ------------------------------------- specification of the two effects

\* The coordinates the user's location can have.
UserPoints == { <<0, 0>>, <<60, 60>> }

\* The station lists of the data base: up to MaxStations stations on Points.
StationLists ==
  UNION { [1 .. n -> { [lat |-> p[1], lon |-> p[2]] : p \in Points }] :
          n \in 0 .. MaxStations }

\* waterData as getNearestMeasurements delivered it for home station h, with
\* or without the station's coordinates.
HomeEntry(db, h, withCoordinates) ==
  [ statid |-> h,
    lat |-> IF withCoordinates THEN Some(db[h].lat) ELSE Null,
    lon |-> IF withCoordinates THEN Some(db[h].lon) ELSE Null,
    water |-> Some(WaterName) ]

\* State common to both effects before either has run.
InitInputs ==
  /\ dbStations \in StationLists
  /\ user = Some("uid")
  /\ \E p \in UserPoints : coordinates = Some([lat |-> p[1], lon |-> p[2]])
  /\ waterLevelVarId = Some("waterLevel")

\* The entry a run of the water-temperature effect for an earlier position
\* has left in waterTemperatureData.
PriorEntry ==
  [ statid |-> 1, lat |-> Some(60), lon |-> Some(60),
    measurements |-> << [value |-> Some(11)] >> ]

InitWtIdle ==
  /\ waterTemperatureError = Null
  /\ waterTemperatureLoading = FALSE
  /\ wtPc = "idle"
  /\ wtCancelled = FALSE
  /\ wtExit = "none"
  /\ validMeasurements = <<>>
  /\ nearestEntry = Null
  /\ wtMinDistance = Null

InitFcLocals ==
  /\ fcCancelled = FALSE
  /\ allStations = <<>>
  /\ stationsWithForecast = <<>>
  /\ probeIndex = 0
  /\ testForecast = "none"
  /\ currentLat = Null
  /\ currentLon = Null
  /\ nearestStation = Null
  /\ fcMinDistance = Null

\* The home station has a forecast and the forecast effect has delivered it;
\* the water-temperature variable is known and its effect is about to run.
InitWaterTemperature ==
  /\ InitInputs
  /\ InitWtIdle
  /\ waterTemperatureData \in {Null, Some(PriorEntry)}
  /\ InitFcLocals
  /\ waterTemperatureVarId = Some("waterTemperature")
  /\ IF Len(dbStations) = 0
     THEN /\ waterData = Null
          /\ forecastData = Null
          /\ forecastStationId = Null
          /\ fcPc = "skipped"
          /\ fcExit = "none"
     ELSE /\ waterData = Some(HomeEntry(dbStations, 1, TRUE))
          /\ forecastData = Some(<< [statid |-> 1, forecasts |-> ForecastSeries] >>)
          /\ forecastStationId = Some(1)
          /\ fcPc = "done"
          /\ fcExit = "home"
  /\ forecastError = Null
  /\ forecastLoading = FALSE

\* No water-temperature variable is offered by the API, so only the forecast
\* effect has a request to make.
InitForecast ==
  /\ InitInputs
  /\ InitWtIdle
  /\ waterTemperatureData = Null
  /\ InitFcLocals
  /\ waterTemperatureVarId = Null
  /\ IF Len(dbStations) = 0
     THEN waterData = Null
     ELSE \E h \in 1 .. Len(dbStations), withCoordinates \in BOOLEAN :
            waterData = Some(HomeEntry(dbStations, h, withCoordinates))
  /\ forecastData = Null
  /\ forecastError = Null
  /\ forecastStationId = Null
  /\ forecastLoading = FALSE
  /\ fcPc = "idle"
  /\ fcExit = "none"

InitNearest ==
  (InitWaterTemperature \/ InitForecast) /\ TrendIdle /\ ApiIdle /\ AppIdle

NextNearest ==
  \/ WtEffect
  \/ WtRequestFails
  \/ WtWatersArrive
  \/ WtMeasurementsArrive
  \/ WtCleanup
  \/ FcEffect
  \/ FcHomeResolves
  \/ FcHomeRejects
  \/ FcStationsResolve
  \/ FcFallbackRejects
  \/ FcVariableStationsSettle
  \/ FcProbeSettles
  \/ FcNearestResolves
  \/ FcCleanup

SpecNearest == InitNearest /\ [][NextNearest]_vars

\* ------------------------------- specification of the fallback's probing

\* The longest station list of the probing scenario: one station more than
\* the fallback probes.
MaxProbeStations == 11

\* The forecast effect alone, over a data base of up to MaxProbeStations
\* stations at the user's position, with or without the forecast an earlier
\* run has stored; the water-temperature effect is not due.
InitProbe ==
  /\ \E n \in 0 .. MaxProbeStations :
       /\ dbStations = [i \in 1 .. n |-> [lat |-> 60, lon |-> 60]]
       /\ waterData = IF n = 0 THEN Null
                      ELSE Some(HomeEntry(dbStations, 1, TRUE))
  /\ user = Some("uid")
  /\ coordinates = Some([lat |-> 60, lon |-> 60])
  /\ waterLevelVarId = Some("waterLevel")
  /\ waterTemperatureVarId = Null
  /\ InitWtIdle
  /\ waterTemperatureData = Null
  /\ InitFcLocals
  /\ \/ forecastData = Null /\ forecastStationId = Null
     \/ /\ Len(dbStations) > 0
        /\ forecastData = Some(<< [statid |-> 1, forecasts |-> ForecastSeries] >>)
        /\ forecastStationId = Some(1)
  /\ forecastError = Null
  /\ forecastLoading = FALSE
  /\ fcPc = "idle"
  /\ fcExit = "none"
  /\ TrendIdle
  /\ ApiIdle
  /\ AppIdle

NextProbe ==
  \/ FcEffect
  \/ FcHomeResolves
  \/ FcHomeRejects
  \/ FcStationsResolve
  \/ FcFallbackRejects
  \/ FcVariableStationsSettle
  \/ FcProbeSettles
  \/ FcNearestResolves
  \/ FcCleanup

SpecProbe == InitProbe /\ [][NextProbe]_vars

\* ---------------------------------------------------------- calculateTrend

\* Time is counted in minutes since the epoch (UTC); a Date is its instant.
\* One day, 1000 * 60 * 60 * 24 ms, in minutes.
MinutesPerDay == 1440

\* slice(0, 5): the window holds at most five daily samples.
WindowDays == 5

\* date.toISOString().split('T')[0]: the calendar date in UTC, as a day number.
DateKey(t) == t \div MinutesPerDay

\* date.getHours(): the hour of the day in the browser's time zone.
getHours(t) == ((t + tzOffset) % MinutesPerDay) \div 60

\* The instant with its time of day left in place.
TimeOfDayKept(t) == t

\* date.setHours(0, 0, 0, 0): the instant of the local midnight before t.
StartOfLocalDay(t) == t - ((t + tzOffset) % MinutesPerDay)

\* Math.round(x / d) for d > 0.
RoundDiv(x, d) == (2 * x + d) \div (2 * d)

\* A sample at the same distance from noon replaces the kept one too.
ReplacesExistingOnTie(currentDiff, existingDiff) == currentDiff <= existingDiff

\* `currentDiff < existingDiff`: the new sample replaces the kept one.
ReplacesExisting(currentDiff, existingDiff) == currentDiff < existingDiff

\* One step of the reduce callback: acc after `forecast` is processed.
DailyStep(acc, forecast) ==
  LET dateKey == DateKey(forecast.date)
      same == { i \in 1 .. Len(acc) : DateKey(acc[i].date) = dateKey }
  IN  IF same = {}
      THEN Append(acc, forecast)
      ELSE LET index == CHOOSE i \in same : \A k \in same : i <= k
               existingDiff == Abs(getHours(acc[index].date) - 12)
               currentDiff == Abs(getHours(forecast.date) - 12)
           IN  IF ReplacesExisting(currentDiff, existingDiff)
               THEN [acc EXCEPT ![index] = forecast]
               ELSE acc

\* forecasts.reduce(..., []): the samples from i on folded into acc.
RECURSIVE DailyReduce(_, _, _)
DailyReduce(series, i, acc) ==
  IF i > Len(series) THEN acc
  ELSE DailyReduce(series, i + 1, DailyStep(acc, series[i]))

\* x put behind the samples of a sorted list that are not later than it.
RECURSIVE InsertByDate(_, _)
InsertByDate(sorted, x) ==
  IF sorted = <<>> THEN <<x>>
  ELSE IF sorted[Len(sorted)].date <= x.date
       THEN Append(sorted, x)
       ELSE Append(InsertByDate(SubSeq(sorted, 1, Len(sorted) - 1), x),
                   sorted[Len(sorted)])

\* Array.prototype.sort with the comparator a.date - b.date (a stable sort).
RECURSIVE SortByDate(_)
SortByDate(list) ==
  IF list = <<>> THEN <<>>
  ELSE InsertByDate(SortByDate(SubSeq(list, 1, Len(list) - 1)), list[Len(list)])

\* A sample of today counts as a future day too.
IsFutureDayOrToday(f) == StartOfLocalDay(f.date) >= StartOfLocalDay(now)

\* The filter of futureDays: the sample's local day is after today.
IsFutureDay(f) == StartOfLocalDay(f.date) > StartOfLocalDay(now)

RECURSIVE FilterFuture(_)
FilterFuture(list) ==
  IF list = <<>> THEN <<>>
  ELSE IF IsFutureDay(Head(list))
       THEN <<Head(list)>> \o FilterFuture(Tail(list))
       ELSE FilterFuture(Tail(list))

\* change = lastValue - currentWaterLevel
TrendChange(lastValue, current) == lastValue - current

\* The greatest common divisor of two naturals, not both 0.
RECURSIVE Gcd(_, _)
Gcd(a, b) == IF b = 0 THEN a ELSE Gcd(b, a % b)

\* The quotient n / d of the numbers n and d > 0 as a fraction in lowest terms.
Quotient(n, d) ==
  LET g == Gcd(Abs(n), d)
  IN  [num |-> n \div g, den |-> d \div g]

\* The percentage taken of the signed current level.
TrendPercentSigned(change, current) ==
  IF current # 0
  THEN Quotient((IF current < 0 THEN -1 ELSE 1) * change * 100, Abs(current))
  ELSE Quotient(0, 1)

\* percentChange = change / |currentWaterLevel| * 100, or 0 for a current
\* level of 0, as an exact fraction.
TrendPercent(change, current) ==
  IF current # 0 THEN Quotient(change * 100, Abs(current)) ELSE Quotient(0, 1)

\* 20 * Math.max(Math.abs(currentWaterLevel) * 0.05, 10)
Threshold20(current) == IF Abs(current) > 200 THEN Abs(current) ELSE 200

\* The classification with a change at the threshold taken for stable.
TrendTypeInclusive(change, current) ==
  IF 20 * Abs(change) <= Threshold20(current) THEN "stable"
  ELSE IF change > 0 THEN "increasing"
  ELSE "decreasing"

\* The classification of a change against the threshold.
TrendType(change, current) ==
  IF 20 * Abs(change) < Threshold20(current) THEN "stable"
  ELSE IF change > 0 THEN "increasing"
  ELSE "decreasing"

\* The object calculateTrend returns for a window of at least two samples.
TrendOfWindow(window, current) ==
  LET lastForecast == window[Len(window)]
      change == TrendChange(lastForecast.value, current)
      daysDiff ==
        RoundDiv(StartOfLocalDay(lastForecast.date) - StartOfLocalDay(window[1].date),
                 MinutesPerDay)
  IN  [ type |-> TrendType(change, current),
        change |-> change,
        percentChange |-> TrendPercent(change, current),
        days |-> daysDiff ]

\* `!forecasts || forecasts.length < 2 || currentWaterLevel === undefined ||
\* currentWaterLevel === null`
TrendGuard(series, current) == Len(series) < 2 \/ IsNull(current)

\* The series with the in-place sort applied to it.
SeriesSortedInPlace(series, daily) == daily

\* The array passed in after `dailyForecasts.sort(...)`: the sort works in
\* place on the array the reduction built from `[]`, which is not the array
\* passed in.
SeriesAfterSort(series, daily) == series

\* calculateTrend(forecasts, currentWaterLevel): the returned value together
\* with the locals dailyForecasts and futureDays and the array passed in as
\* the call leaves them.
calculateTrend(series, current) ==
  IF TrendGuard(series, current)
  THEN [ dailyForecasts |-> <<>>, futureDays |-> <<>>, result |-> Null,
         forecasts |-> series ]
  ELSE LET reduced == DailyReduce(series, 1, <<>>)
       IN  IF Len(reduced) < 2
           THEN [ dailyForecasts |-> reduced, futureDays |-> <<>>,
                  result |-> Null, forecasts |-> series ]
           ELSE LET daily == SortByDate(reduced)
                    window == Slice(FilterFuture(daily), WindowDays)
                IN  [ dailyForecasts |-> daily,
                      futureDays |-> window,
                      forecasts |-> SeriesAfterSort(series, daily),
                      result |-> IF Len(window) < 2 THEN Null
                                 ELSE Some(TrendOfWindow(window, current[1])) ]

\* The call of calculateTrend from the forecast section of the page.
CalculateTrend ==
  /\ trPc = "ready"
  /\ LET call == calculateTrend(forecasts, currentWaterLevel)
     IN  /\ dailyForecasts' = call.dailyForecasts
         /\ futureDays' = call.futureDays
         /\ trend' = call.result
         /\ forecasts' = call.forecasts
  /\ trPc' = "done"
  /\ UNCHANGED << now, tzOffset, currentWaterLevel >>
  /\ UNCHANGED << inputVars, wtVars, fcVars, apiVars, appVars >>

\* The next render calls calculateTrend again, on the same series and level
\* and at the same time.
CalculateTrendAgain ==
  /\ trPc = "done"
  /\ LET call == calculateTrend(forecasts, currentWaterLevel)
     IN  /\ dailyForecasts' = call.dailyForecasts
         /\ futureDays' = call.futureDays
         /\ trend' = call.result
         /\ forecasts' = call.forecasts
  /\ trPc' = "again"
  /\ UNCHANGED << now, tzOffset, currentWaterLevel >>
  /\ UNCHANGED << inputVars, wtVars, fcVars, apiVars, appVars >>

\* ------------------------------------------------ the page's trend block

\* The forecast section shows the forecast grid: user && waterData, not
\* loading, no error, and forecastData[0].forecasts is a non-empty series.
ShowsForecastGrid ==
  /\ ~IsNull(user)
  /\ ~IsNull(waterData)
  /\ ~forecastLoading
  /\ IsNull(forecastError)
  /\ ~IsNull(forecastData)
  /\ Len(forecastData[1]) > 0
  /\ Len(forecastData[1][1].forecasts) > 0

\* The render's currentWaterLevel: the value of the last measurement of the
\* water-level entry, null without a measurement.
LastMeasurementLevel(entry) ==
  IF Len(entry.measurements) > 0
  THEN entry.measurements[Len(entry.measurements)].value
  ELSE Null

\* A render of the forecast grid: `currentWaterLevel !== null ?
\* calculateTrend(firstForecast.forecasts, currentWaterLevel) : null`, here
\* the first render that makes the call.
RenderTrend ==
  /\ trPc = "idle"
  /\ ShowsForecastGrid
  /\ LET level == LastMeasurementLevel(waterData[1])
         call == calculateTrend(forecastData[1][1].forecasts, level)
     IN  /\ ~IsNull(level)
         /\ currentWaterLevel' = level
         /\ dailyForecasts' = call.dailyForecasts
         /\ futureDays' = call.futureDays
         /\ trend' = call.result
         /\ forecasts' = call.forecasts
  /\ trPc' = "done"
  /\ UNCHANGED << now, tzOffset >>
  /\ UNCHANGED << inputVars, wtVars, fcVars, apiVars, appVars >>

\* ------------------------------------------ specification of calculateTrend

\* Longest freely ordered part at the head of a forecast series.
MaxHead == 2

\* Longest run of daily noon samples at the tail of a forecast series.
MaxTail == 5

\* Times of day (UTC, in minutes) of the freely ordered samples: 11:00,
\* 11:40, 13:00 and 23:00.
HeadTimes == {660, 700, 780, 1380}

\* Days of the freely ordered samples.
HeadDays == {1, 2}

\* The browser's clock: 10:00 UTC on day 1 or on day 2.
Clocks == {1 * 1440 + 600, 2 * 1440 + 600}

\* The browser's time zone as minutes ahead of UTC: UTC and UTC+2.
TimeZones == {0, 120}

\* Current water levels: none, zero, below and above the datum; 400 and 410
\* are levels whose twentieth part is above 10.
WaterLevels == { Null, Some(0), Some(-50), Some(100), Some(140), Some(400), Some(410) }

\* Forecast values change by this much per day.
Slopes == {-10, 10, 80}

\* The forecast value of a sample: 100 on day 0, changing by `slope` a day at
\* noon, with a small part telling the samples of one day apart.
SampleValue(day, minute, slope) ==
  100 + slope * day + Cardinality({ m \in HeadTimes : m < minute }) - 2

Sample(day, minute, slope) ==
  [ date |-> day * MinutesPerDay + minute,
    value |-> SampleValue(day, minute, slope) ]

\* The tail of a series: n samples at 12:00 UTC on days 3, 4, ..., the days
\* after the first moved on by `gap` days.
TailSeries(n, gap, slope) ==
  [ k \in 1 .. n |-> Sample(2 + k + (IF k > 1 THEN gap ELSE 0), 720, slope) ]

\* The samples of the head: every time of day 2, and 23:00 of day 1.
HeadSamples(slope) ==
  { Sample(p[1], p[2], slope) :
      p \in { q \in HeadDays \X HeadTimes : q[1] = 2 \/ q[2] = 1380 } }

\* The head of a series: up to MaxHead samples in any order.
HeadSeries(slope) ==
  UNION { [1 .. n -> HeadSamples(slope)] : n \in 0 .. MaxHead }

\* The effects are at rest: both have run and found their inputs missing.
NearestIdle ==
  /\ dbStations = <<>>
  /\ user = Some("uid")
  /\ coordinates = Null
  /\ waterData = Null
  /\ waterTemperatureVarId = Null
  /\ waterLevelVarId = Null
  /\ waterTemperatureData = Null
  /\ waterTemperatureError = Null
  /\ waterTemperatureLoading = FALSE
  /\ wtPc = "skipped"
  /\ wtCancelled = FALSE
  /\ wtExit = "none"
  /\ validMeasurements = <<>>
  /\ nearestEntry = Null
  /\ wtMinDistance = Null
  /\ InitFcLocals
  /\ forecastData = Null
  /\ forecastError = Null
  /\ forecastStationId = Null
  /\ forecastLoading = FALSE
  /\ fcPc = "skipped"
  /\ fcExit = "none"

InitTrend ==
  /\ NearestIdle
  /\ ApiIdle
  /\ AppIdle
  /\ now \in Clocks
  /\ tzOffset \in TimeZones
  /\ currentWaterLevel \in WaterLevels
  /\ \E slope \in Slopes, n \in 0 .. MaxTail, gap \in {0, 3} :
       \E head \in HeadSeries(slope) :
         forecasts = head \o TailSeries(n, gap, slope)
  /\ trPc = "ready"
  /\ dailyForecasts = <<>>
  /\ futureDays = <<>>
  /\ trend = Null

NextTrend == CalculateTrend \/ CalculateTrendAgain

SpecTrend == InitTrend /\ [][NextTrend]_vars

\* ------------------------- the two effects and calculateTrend side by side

InitAll == InitNearest \/ InitTrend

NextAll ==
  \/ WtEffect
  \/ WtRequestFails
  \/ WtWatersArrive
  \/ WtMeasurementsArrive
  \/ WtCleanup
  \/ FcEffect
  \/ FcHomeResolves
  \/ FcHomeRejects
  \/ FcStationsResolve
  \/ FcFallbackRejects
  \/ FcVariableStationsSettle
  \/ FcProbeSettles
  \/ FcNearestResolves
  \/ FcCleanup
  \/ CalculateTrend
  \/ CalculateTrendAgain

SpecAll == InitAll /\ [][NextAll]_vars

\* ------------------------------------ specification of the page's order

\* The longest station list of the page scenario.
MaxPageStations == 2

\* The water-level entry of station 1 as the water-level effect stored it:
\* with or without the name of a water body, and with a measurement series
\* that is complete, empty, or ends in a null value.
PageEntry(named, how) ==
  [ statid |-> 1,
    lat |-> Some(dbStations[1].lat),
    lon |-> Some(dbStations[1].lon),
    water |-> IF named THEN Some(WaterName) ELSE Null,
    measurements |-> EntryMeasurements(1, IF how = "full" THEN 0 ELSE 1, how) ]

\* Both effects are due and the page has not yet called calculateTrend; no
\* entry is stored when the data base has no station.
InitPage ==
  /\ \E n \in 0 .. MaxPageStations :
       dbStations = [i \in 1 .. n |-> [lat |-> 0, lon |-> -60]]
  /\ user = Some("uid")
  /\ coordinates = Some([lat |-> 60, lon |-> 60])
  /\ waterLevelVarId = Some("waterLevel")
  /\ waterTemperatureVarId \in {Null, Some("waterTemperature")}
  /\ IF Len(dbStations) = 0
     THEN waterData = Null
     ELSE \E named \in BOOLEAN, how \in {"full", "empty", "null"} :
            waterData = Some(PageEntry(named, how))
  /\ InitWtIdle
  /\ waterTemperatureData = Null
  /\ InitFcLocals
  /\ forecastData = Null
  /\ forecastError = Null
  /\ forecastStationId = Null
  /\ forecastLoading = FALSE
  /\ fcPc = "idle"
  /\ fcExit = "none"
  /\ TrendIdle
  /\ ApiIdle
  /\ AppIdle

NextPage ==
  \/ WtEffect
  \/ WtRequestFails
  \/ WtWatersArrive
  \/ WtMeasurementsArrive
  \/ WtCleanup
  \/ FcEffect
  \/ FcHomeResolves
  \/ FcHomeRejects
  \/ FcStationsResolve
  \/ FcFallbackRejects
  \/ FcVariableStationsSettle
  \/ FcProbeSettles
  \/ FcNearestResolves
  \/ FcCleanup
  \/ RenderTrend

SpecPage == InitPage /\ [][NextPage]_vars

\* ------------------------------------------ nearest-candidate selection

\* A coordinate the scans can use: not (0, 0).
Usable(lat, lon) == ~(lat = 0 /\ lon = 0)

\* The water-temperature scan has run over validMeasurements.
WtScanRan == wtExit \in {"noNearest", "set"}

\* Distance of entry i of validMeasurements to the user's coordinates.
WtDistance(i) ==
  calculateDistance(coordinates[1].lat, coordinates[1].lon,
                    EntryLat(validMeasurements[i]), EntryLon(validMeasurements[i]))

WtUsable(i) ==
  Usable(EntryLat(validMeasurements[i]), EntryLon(validMeasurements[i]))

WtUsableEntries == { i \in 1 .. Len(validMeasurements) : WtUsable(i) }

\* The station scan has run over stationsWithForecast.
FcScanRan == ~IsNull(nearestStation)

\* Distance of station i of stationsWithForecast to the reference.
FcDistance(i) ==
  calculateDistance(currentLat[1], currentLon[1],
                    stationsWithForecast[i].lat, stationsWithForecast[i].lon)

FcUsable(i) == Usable(stationsWithForecast[i].lat, stationsWithForecast[i].lon)

FcUsableStations == { i \in 1 .. Len(stationsWithForecast) : FcUsable(i) }

\* C1: whenever a scan has run over a list with a usable candidate, it has
\* selected a candidate of the list, minDistance is that candidate's distance,
\* and no usable candidate is nearer to the reference.
C1_SelectedIsNearest ==
  /\ (WtScanRan /\ WtUsableEntries # {}) =>
       /\ ~IsNull(nearestEntry)
       /\ \E j \in 1 .. Len(validMeasurements) :
            /\ validMeasurements[j] = nearestEntry[1]
            /\ wtMinDistance = Some(WtDistance(j))
       /\ \A i \in WtUsableEntries : wtMinDistance[1] <= WtDistance(i)
  /\ (FcScanRan /\ FcUsableStations # {}) =>
       /\ \E j \in 1 .. Len(stationsWithForecast) :
            /\ stationsWithForecast[j] = nearestStation[1]
            /\ fcMinDistance = Some(FcDistance(j))
       /\ \A i \in FcUsableStations : fcMinDistance[1] <= FcDistance(i)

\* The water-temperature scan has passed over a usable first entry and
\* selected a later, strictly nearer one.
C1_Witness ==
  /\ wtExit = "set"
  /\ Len(validMeasurements) >= 2
  /\ WtUsable(1)
  /\ nearestEntry[1] # validMeasurements[1]
  /\ wtMinDistance[1] < WtDistance(1)
  /\ waterTemperatureData = nearestEntry

\* C2: a candidate at (0, 0) is never the selected one when the list holds a
\* usable candidate.
C2_ZeroNeverSelected ==
  /\ (WtScanRan /\ WtUsableEntries # {}) =>
       /\ ~IsNull(nearestEntry)
       /\ Usable(EntryLat(nearestEntry[1]), EntryLon(nearestEntry[1]))
  /\ (FcScanRan /\ FcUsableStations # {}) =>
       Usable(nearestStation[1].lat, nearestStation[1].lon)

\* The usable candidates at the least distance any usable candidate has.
WtNearestUsable ==
  { i \in WtUsableEntries : \A k \in WtUsableEntries : WtDistance(i) <= WtDistance(k) }

FcNearestUsable ==
  { i \in FcUsableStations : \A k \in FcUsableStations : FcDistance(i) <= FcDistance(k) }

\* The least member of a non-empty set of indices.
First(S) == CHOOSE i \in S : \A k \in S : i <= k

WtSelectionDone == wtExit \in {"noValid", "noNearest", "set"}

FcSelectionDone == FcScanRan \/ fcExit \in {"noStations", "noReference"}

\* C4: an empty list, or one whose candidates are all at (0, 0), yields no
\* candidate and null data, and the request code does not end in its catch.
C4_NoCandidateIsAbsence ==
  /\ (WtSelectionDone /\ WtUsableEntries = {}) =>
       /\ IsNull(nearestEntry)
       /\ ~wtCancelled => IsNull(waterTemperatureData)
  /\ (FcSelectionDone /\ FcUsableStations = {}) =>
       /\ IsNull(nearestStation)
       /\ fcExit # "fallbackError"
       /\ fcPc = "done" => IsNull(forecastData)

\* The candidates at the reference coordinate itself.
WtAtReference ==
  { i \in 1 .. Len(validMeasurements) :
      /\ EntryLat(validMeasurements[i]) = coordinates[1].lat
      /\ EntryLon(validMeasurements[i]) = coordinates[1].lon }

FcAtReference ==
  { i \in 1 .. Len(stationsWithForecast) :
      /\ stationsWithForecast[i].lat = currentLat[1]
      /\ stationsWithForecast[i].lon = currentLon[1] }

\* C5 as stated: for every reference coordinate, (0, 0) included, a
\* candidate at the reference coordinate makes the water-temperature scan
\* select the first such candidate, at distance 0.
C5_SelfAtDistanceZero ==
  (WtScanRan /\ WtAtReference # {}) =>
    /\ nearestEntry = Some(validMeasurements[First(WtAtReference)])
    /\ wtMinDistance = Some(0)

\* C5 amended: for every reference coordinate other than (0, 0), a candidate
\* at the reference coordinate makes the water-temperature scan select the
\* first such candidate, at distance 0; so does the station scan, which runs
\* only for a reference with non-zero latitude and longitude.
C5_SelfAtDistanceZeroUsable ==
  /\ ( /\ WtScanRan
       /\ WtAtReference # {}
       /\ Usable(coordinates[1].lat, coordinates[1].lon) ) =>
       /\ nearestEntry = Some(validMeasurements[First(WtAtReference)])
       /\ wtMinDistance = Some(0)
  /\ (FcScanRan /\ FcAtReference # {}) =>
       /\ nearestStation = Some(stationsWithForecast[First(FcAtReference)])
       /\ fcMinDistance = Some(0)

\* The station scan has passed over a first station elsewhere and selected a
\* later one at the reference coordinate.
C5_Witness ==
  /\ FcScanRan
  /\ FcAtReference # {}
  /\ 1 \notin FcAtReference
  /\ nearestStation[1].lat = currentLat[1]
  /\ nearestStation[1].lon = currentLon[1]
  /\ fcMinDistance = Some(0)

\* ------------------------------------------------- the trend of a forecast

\* The calendar day of an instant in the browser's time zone.
LocalDay(t) == (t + tzOffset) \div MinutesPerDay

\* Minutes between an instant's local time of day and 12:00.
NoonDistance(t) == Abs(((t + tzOffset) % MinutesPerDay) - 720)

\* Hours between an instant's local hour and 12, as the reduction counts them.
HourDistance(t) == Abs(getHours(t) - 12)

\* calculateTrend has returned after running its daily reduction.
ReductionRan ==
  trPc \in {"done", "again"} /\ Len(forecasts) >= 2 /\ ~IsNull(currentWaterLevel)

Samples(list) == { list[i] : i \in 1 .. Len(list) }

\* C6: the reduced series holds exactly one sample for each local calendar
\* date of the input, and that sample is an input sample of the date whose
\* local time of day (hours and minutes) is nearest to 12:00.
C6_OnePerLocalDateNearestNoon ==
  ReductionRan =>
    /\ Samples(dailyForecasts) \subseteq Samples(forecasts)
    /\ \A i \in 1 .. Len(forecasts) :
         LET kept == { k \in 1 .. Len(dailyForecasts) :
                         LocalDay(dailyForecasts[k].date) = LocalDay(forecasts[i].date) }
         IN  /\ Cardinality(kept) = 1
             /\ \A k \in kept :
                  LocalDay(dailyForecasts[k].date) = LocalDay(forecasts[i].date) =>
                    NoonDistance(dailyForecasts[k].date) <= NoonDistance(forecasts[i].date)

\* The input samples of the UTC date of instant t whose hour is nearest to 12
\* among the samples of that date, by their place in the series.
BestOfDate(t) ==
  { i \in 1 .. Len(forecasts) :
      /\ DateKey(forecasts[i].date) = DateKey(t)
      /\ \A j \in 1 .. Len(forecasts) :
           DateKey(forecasts[j].date) = DateKey(t) =>
             HourDistance(forecasts[i].date) <= HourDistance(forecasts[j].date) }

\* The greatest member of a non-empty set of indices.
Latest(S) == CHOOSE i \in S : \A k \in S : k <= i

\* C7 as stated: of the samples of one date equally near to noon, the one
\* processed last is the one kept.
C7_LastWinsTies ==
  ReductionRan =>
    \A k \in 1 .. Len(dailyForecasts) :
      dailyForecasts[k] = forecasts[Latest(BestOfDate(dailyForecasts[k].date))]

\* C7 amended: of the samples of one date equally near to noon, the one
\* processed first is the one kept; a later sample replaces the kept one only
\* when its hour is strictly nearer to 12.
C7_FirstWinsTies ==
  ReductionRan =>
    /\ \A k \in 1 .. Len(dailyForecasts) :
         dailyForecasts[k] = forecasts[First(BestOfDate(dailyForecasts[k].date))]
    /\ \A i \in 1 .. Len(forecasts) :
         Cardinality({ k \in 1 .. Len(dailyForecasts) :
                         DateKey(dailyForecasts[k].date) = DateKey(forecasts[i].date) }) = 1

\* In UTC the series has a sample at 11:00 and, later in the series, one at
\* 13:00 of the same date, and the reduction has kept the one at 11:00.
C7_Witness ==
  /\ ReductionRan
  /\ tzOffset = 0
  /\ \E i \in 1 .. Len(forecasts), j \in 1 .. Len(forecasts) :
       /\ i < j
       /\ DateKey(forecasts[i].date) = DateKey(forecasts[j].date)
       /\ forecasts[i].date % MinutesPerDay = 660
       /\ forecasts[j].date % MinutesPerDay = 780
       /\ forecasts[i] \in Samples(dailyForecasts)
       /\ forecasts[j] \notin Samples(dailyForecasts)

\* calculateTrend has returned after selecting its window.
WindowSelected == ReductionRan /\ Len(dailyForecasts) >= 2

\* C8: the window holds reduced daily samples in ascending date order, none of
\* today or an earlier day, at most five of them, each within the five
\* calendar days after today.
C8_WindowWithinFiveDays ==
  WindowSelected =>
    /\ Samples(futureDays) \subseteq Samples(dailyForecasts)
    /\ \A i \in 1 .. Len(futureDays), j \in 1 .. Len(futureDays) :
         i < j => futureDays[i].date <= futureDays[j].date
    /\ Len(futureDays) <= 5
    /\ \A i \in 1 .. Len(futureDays) :
         /\ LocalDay(futureDays[i].date) > LocalDay(now)
         /\ LocalDay(futureDays[i].date) <= LocalDay(now) + 5

\* C28: the samples of the window of a non-null result fall on pairwise
\* distinct local calendar days, so days is at least 1, and at most 4 when
\* the window's samples are on consecutive local days.
C28_WindowOnDistinctDays ==
  ~IsNull(trend) =>
    /\ \A i \in 1 .. Len(futureDays), j \in 1 .. Len(futureDays) :
         i < j => LocalDay(futureDays[i].date) # LocalDay(futureDays[j].date)
    /\ trend[1].days >= 1
    /\ (\A i \in 1 .. Len(futureDays) - 1 :
          LocalDay(futureDays[i + 1].date) = LocalDay(futureDays[i].date) + 1) =>
         trend[1].days <= 4

\* The reduced daily samples of a local day after today.
DailyAfterToday ==
  { k \in 1 .. Len(dailyForecasts) : LocalDay(dailyForecasts[k].date) > LocalDay(now) }

\* C9: calculateTrend returns null exactly when the series has fewer than two
\* samples, or fewer than two dates, or fewer than two daily samples after
\* today, or the current value is null.
C9_NullExactlyWhenInsufficient ==
  trPc \in {"done", "again"} =>
    ( IsNull(trend) <=>
        \/ Len(forecasts) < 2
        \/ IsNull(currentWaterLevel)
        \/ Cardinality({ DateKey(forecasts[i].date) : i \in 1 .. Len(forecasts) }) < 2
        \/ Cardinality(DailyAfterToday) < 2 )

\* The call returned null only for want of future days: the series has
\* samples of two dates or more and the current value is there, but a single
\* daily sample lies after today.
C9_Witness ==
  /\ trPc = "done"
  /\ IsNull(trend)
  /\ ~IsNull(currentWaterLevel)
  /\ Len(dailyForecasts) >= 2
  /\ Cardinality(DailyAfterToday) = 1

\* C10: change is the last window value less the current value, and
\* percentChange is change / |current| * 100, or 0 for a current value of 0.
C10_ChangeAndPercent ==
  ~IsNull(trend) =>
    LET current == currentWaterLevel[1]
        lastValue == futureDays[Len(futureDays)].value
    IN  /\ trend[1].change = lastValue - current
        /\ trend[1].percentChange.den > 0
        /\ current # 0 =>
             trend[1].percentChange.num * Abs(current)
               = trend[1].change * 100 * trend[1].percentChange.den
        /\ current = 0 => trend[1].percentChange.num = 0

\* The current value is 100 and the last window value 130: change 30, 30 %.
C10_Witness ==
  /\ ~IsNull(trend)
  /\ currentWaterLevel = Some(100)
  /\ futureDays[Len(futureDays)].value = 130
  /\ trend[1].change = 30
  /\ trend[1].percentChange = [num |-> 30, den |-> 1]

\* |change| < max(|current| * 0.05, 10), the two parts of the maximum apart.
BelowThreshold(change, current) ==
  Abs(change) < 10 \/ 20 * Abs(change) < Abs(current)

\* C11: a non-null result has type stable exactly when |change| is below
\* max(|current| * 0.05, 10), increasing exactly when it is not and change is
\* positive, decreasing exactly when it is not and change is negative; a
\* change of the threshold's magnitude is not stable.
C11_Classification ==
  ~IsNull(trend) =>
    LET change == trend[1].change
        below == BelowThreshold(change, currentWaterLevel[1])
    IN  /\ trend[1].type \in {"stable", "increasing", "decreasing"}
        /\ trend[1].type = "stable" <=> below
        /\ trend[1].type = "increasing" <=> (~below /\ change > 0)
        /\ trend[1].type = "decreasing" <=> (~below /\ change < 0)

\* The current level is 400, so the threshold is 20, and the change is 20:
\* the result is increasing.
C11_Witness ==
  /\ ~IsNull(trend)
  /\ currentWaterLevel = Some(400)
  /\ trend[1].change = 20
  /\ trend[1].type = "increasing"

\* Times of day a boundary sample is moved to within its local day.
MovedTimes == {0, 660, 1439}

\* The sample moved to minute m of its own local day.
MovedTo(sample, m) == [sample EXCEPT !.date = StartOfLocalDay(sample.date) + m]

\* The window with its first sample moved to minute a and its last to minute
\* b of their local days.
MovedWindow(window, a, b) ==
  [ k \in 1 .. Len(window) |->
      IF k = 1 THEN MovedTo(window[k], a)
      ELSE IF k = Len(window) THEN MovedTo(window[k], b)
      ELSE window[k] ]

\* C12: days of a non-null result is the number of local calendar days from
\* the date of the first window sample to the date of the last, and is the
\* same for the window with the times of day of its two boundary samples
\* moved within their days.
C12_DaySpan ==
  ~IsNull(trend) =>
    LET last == futureDays[Len(futureDays)]
    IN  /\ trend[1].days = LocalDay(last.date) - LocalDay(futureDays[1].date)
        /\ \A a \in MovedTimes, b \in MovedTimes :
             TrendOfWindow(MovedWindow(futureDays, a, b), currentWaterLevel[1]).days
               = trend[1].days

\* In UTC the window runs from a sample at 23:00 to one at 12:00 two calendar
\* days on, 37 hours later, and days is 2.
C12_Witness ==
  /\ ~IsNull(trend)
  /\ tzOffset = 0
  /\ futureDays[1].date % MinutesPerDay = 1380
  /\ futureDays[Len(futureDays)].date - futureDays[1].date = 37 * 60
  /\ trend[1].days = 2

\* ------------------------------------------------ the inputs after a call

\* The entries the water-temperature scan went over are as getMeasurements
\* delivered them, in the order of the answer.
WtEntriesIntact ==
  \A k \in 1 .. Len(validMeasurements) :
    LET e == validMeasurements[k]
    IN  /\ e.lat \in { EntryCoordinate(dbStations[e.statid].lat, b) : b \in BOOLEAN }
        /\ e.lon \in { EntryCoordinate(dbStations[e.statid].lon, b) : b \in BOOLEAN }
        /\ e.measurements = EntryMeasurements(e.statid, 0, "empty")
        /\ \A j \in 1 .. k - 1 : validMeasurements[j].statid < e.statid

\* The stations the station scan went over are as getStations delivered
\* them, in the order of the answer.
FcStationsIntact ==
  /\ allStations \in StationsResponses
  /\ \A k \in 1 .. Len(stationsWithForecast) :
       /\ stationsWithForecast[k] \in Samples(allStations)
       /\ \A j \in 1 .. k - 1 :
            stationsWithForecast[j].statid < stationsWithForecast[k].statid

Num(n) == [t |-> "number", n |-> n, s |-> ""]

\* A JavaScript string holding a text.
Str(text) == [t |-> "string", n |-> 0, s |-> text]

\* A JavaScript string holding the decimal digits of the number n.
Digits(n) == [t |-> "string", n |-> n, s |-> "digits"]

\* parseFloat / parseInt(_, 10) of a string of digits.
parseFloat(v) == Num(v.n)

\* JavaScript truthiness of a number or string.
IsTruthy(v) == IF v.t = "number" THEN v.n # 0 ELSE v.s # ""

\* --------------------------------------------- callApi (hydrological API)

\* Texts an error or message field carries.  The first reports a missing
\* forecast; the second reports a failure and names the forecast service.
ErrorTexts ==
  { "no forecast available", "forecast service failure", "database error" }

\* text.toLowerCase().includes('forecast') for the texts above.
IncludesForecast(text) ==
  text \in { "no forecast available", "forecast service failure" }

\* combinedErrorText.includes(...) on errorText + ' ' + messageText.
CombinedIncludesForecast(errorText, messageText) ==
  IncludesForecast(errorText) \/ IncludesForecast(messageText)

\* isForecastError of callApi.
isForecastError(data) ==
  LET errorCode == IF data.error[1].t = "number" THEN Some(data.error[1].n) ELSE Null
      errorText == IF data.error[1].t = "string" THEN data.error[1].s ELSE ""
      messageText == IF IsNull(data.message) THEN "" ELSE data.message[1]
  IN  \/ errorCode \in { Some(16), Some(17), Some(18) }
      \/ CombinedIncludesForecast(errorText, messageText)

Rejected(message) == [kind |-> "rejected", error |-> message, data |-> <<>>]

Resolved(entries) == [kind |-> "resolved", error |-> "", data |-> entries]

\* The body check that takes no body for an error.
ErrorFieldIgnored(data) == FALSE

\* `if (data.error)`
ErrorFieldSet(data) == ~IsNull(data.error) /\ IsTruthy(data.error[1])

\* callApi from the arrival of the HTTP response on: the promise rejects with
\* an Error (named here by the fixed part of its message) or resolves with
\* the parsed body.
callApi(response) ==
  IF ~response.ok THEN Rejected("OVSZ API hiba (status)")
  ELSE IF ~response.json THEN Rejected("OVSZ API valasz nem ervenyes JSON")
  ELSE IF ErrorFieldSet(response.data)
       THEN IF isForecastError(response.data)
            THEN Rejected("NO_FORECAST")
            ELSE Rejected("OVSZ API hiba")
       ELSE Resolved(response.data)

\* --------------------------------- the wrappers of the hydrological API

\* Most entries in a payload.
MaxEntries == 2

WaterViews ==
  { "getStations", "getMeasurements", "getNearestMeasurements", "getForecast",
    "getVariableStations", "getStationVariables" }

\* The numeric fields of a record; `value` is the value of the entry's one
\* measurement or forecast, `conf` the confidence of its forecast.
NumericFields ==
  { "statid", "stationid", "varid", "lat", "lon", "distance", "value", "conf",
    "forecasted" }

\* The numeric fields a payload entry of a view carries.
EntryFields(view) ==
  CASE view = "getStations" -> {"statid", "lat", "lon"}
    [] view = "getMeasurements" -> {"statid", "lat", "lon", "value"}
    [] view = "getNearestMeasurements" -> {"statid", "lat", "lon", "distance", "value"}
    [] view = "getForecast" -> {"statid", "lat", "lon", "value", "conf"}
    [] view = "getVariableStations" -> {"stationid", "forecasted"}
    [] view = "getStationVariables" -> {"varid", "forecasted"}

\* The number entry i of a payload carries in a field.
FieldNumber(field, i) ==
  CASE field \in {"statid", "stationid", "varid"} -> i
    [] field = "lat" -> 46 + i
    [] field = "lon" -> 18 + i
    [] field = "distance" -> 3 * i
    [] field = "value" -> 100 + i
    [] field = "conf" -> 80
    [] field = "forecasted" -> i % 2

\* Entry i of a payload of a view, the fields in `strings` arriving as strings.
PayloadEntry(view, i, strings) ==
  [ f \in NumericFields |->
      IF f \notin EntryFields(view) THEN Null
      ELSE IF f \in strings THEN Some(Digits(FieldNumber(f, i)))
      ELSE Some(Num(FieldNumber(f, i))) ]

\* `typeof x === 'string' ? parseFloat(x) : x` on a field that may be absent.
Coerce(o) == IF ~IsNull(o) /\ o[1].t = "string" THEN Some(parseFloat(o[1])) ELSE o

\* The entry with the fields in `fields` coerced and the others spread as
\* they are.
CoerceFields(entry, fields) ==
  [ f \in NumericFields |-> IF f \in fields THEN Coerce(entry[f]) ELSE entry[f] ]

\* The entries a wrapper reads out of the body: the array itself or its
\* `entries` array; getMeasurements and getVariableStations also take the
\* array under the first key of an object keyed otherwise.
BodyEntries(view, data) ==
  IF data.shape \in {"array", "entries"} THEN data.entries
  ELSE IF view \in {"getMeasurements", "getVariableStations"} THEN data.entries
  ELSE <<>>

MapEntries(entries, fields) ==
  [ i \in 1 .. Len(entries) |-> CoerceFields(entries[i], fields) ]

\* entries.filter(entry => entry.forecasted === '1' || entry.forecasted === 1)
RECURSIVE FilterForecasted(_)
FilterForecasted(entries) ==
  IF entries = <<>> THEN <<>>
  ELSE IF Head(entries).forecasted[1].n = 1
       THEN <<Head(entries)>> \o FilterForecasted(Tail(entries))
       ELSE FilterForecasted(Tail(entries))

\* The record getVariableStations builds: statid read from stationid.
VariableStationOf(entry) ==
  [ f \in NumericFields |->
      CASE f = "statid" -> Coerce(entry.stationid)
        [] f = "forecasted" -> Coerce(entry.forecasted)
        [] OTHER -> Null ]

\* What a wrapper returns for the body callApi resolved with; the result of
\* getNearestMeasurements, an entry or null, is a list of at most one entry.
WaterWrapper(view, data) ==
  CASE view = "getStations" -> BodyEntries(view, data)
    [] view = "getStationVariables" -> BodyEntries(view, data)
    [] view = "getMeasurements" -> MapEntries(BodyEntries(view, data), {"statid", "value"})
    [] view = "getForecast" -> MapEntries(BodyEntries(view, data), {"statid", "value", "conf"})
    [] view = "getNearestMeasurements" ->
         IF data.shape = "entries" /\ Len(data.entries) > 0
         THEN << CoerceFields(data.entries[1],
                              {"statid", "lat", "lon", "distance", "value"}) >>
         ELSE <<>>
    [] view = "getVariableStations" ->
         [ i \in 1 .. Len(FilterForecasted(BodyEntries(view, data))) |->
             VariableStationOf(FilterForecasted(BodyEntries(view, data))[i]) ]

\* ------------------------------------------------------- the weather API

WeatherViews == { "fetchWeather", "searchLocations", "searchNearestLocation" }

\* Most hourly readings in a forecast.json answer.
MaxHours == 2

\* The observation's timestamp (in hours) and pressure (in tenths of a hPa).
CurrentEpoch == 3

CurrentPressure == 10130

\* Hourly readings: before, at and after the observation, with pressures at,
\* just inside and at the edge of the threshold.
HourlyReadings ==
  { [time_epoch |-> e, pressure_mb |-> CurrentPressure + d] :
      e \in {1, 2, 3, 4}, d \in {-5, -4, 0, 5} }

\* The trend with a difference of 0.5 taken for stable.
determinePressureTrendInclusive(currentPressure, historyPressure) ==
  IF IsNull(historyPressure) THEN "stabil"
  ELSE LET delta == currentPressure - historyPressure[1]
       IN  IF Abs(delta) <= 5 THEN "stabil"
           ELSE IF delta > 0 THEN "emelkedo" ELSE "csokkeno"

\* determinePressureTrend, pressures in tenths of a hPa (0.5 is 5); the
\* trends are spelled in ASCII.
determinePressureTrend(currentPressure, historyPressure) ==
  IF IsNull(historyPressure) THEN "stabil"
  ELSE LET delta == currentPressure - historyPressure[1]
       IN  IF Abs(delta) < 5 THEN "stabil"
           ELSE IF delta > 0 THEN "emelkedo" ELSE "csokkeno"

\* The first of the readings before currentEpoch with the greatest timestamp:
\* candidates[0] after the filter and the stable descending sort.
RECURSIVE LatestBefore(_, _, _, _)
LatestBefore(hours, currentEpoch, i, best) ==
  IF i > Len(hours) THEN best
  ELSE LatestBefore(hours, currentEpoch, i + 1,
         IF /\ hours[i].time_epoch < currentEpoch
            /\ (IsNull(best) \/ hours[i].time_epoch > best[1].time_epoch)
         THEN Some(hours[i]) ELSE best)

extractPreviousHourPressure(data) ==
  LET first == LatestBefore(data.hours, data.current.last_updated_epoch, 1, Null)
  IN  IF IsNull(first) THEN Null ELSE Some(first[1].pressure_mb)

\* fetchWeather from the arrival of the HTTP response on.
fetchWeather(response) ==
  IF ~response.ok THEN Rejected("WeatherAPI hiba (status)")
  ELSE IF ~response.json THEN Rejected("SyntaxError")
  ELSE Resolved(<< [ pressureHpa |-> response.data.current.pressure_mb,
                     pressureTrend |->
                       determinePressureTrend(response.data.current.pressure_mb,
                                              extractPreviousHourPressure(response.data)) ] >>)

\* data.filter(item => item.country.toLowerCase() === countryFilter.toLowerCase())
RECURSIVE FilterCountry(_)
FilterCountry(items) ==
  IF items = <<>> THEN <<>>
  ELSE IF Head(items).country = "Hungary"
       THEN <<Head(items)>> \o FilterCountry(Tail(items))
       ELSE FilterCountry(Tail(items))

\* searchLocations from the arrival of the HTTP response on.
searchLocations(response) ==
  IF ~response.ok THEN Rejected("WeatherAPI keresesi hiba (status)")
  ELSE IF ~response.json THEN Rejected("SyntaxError")
  ELSE IF ~response.data.isArray THEN Resolved(<<>>)
  ELSE IF Len(FilterCountry(response.data.items)) > 0
       THEN Resolved(FilterCountry(response.data.items))
       ELSE Resolved(response.data.items)

\* searchNearestLocation from the arrival of the HTTP response on; the
\* result, a location or null, is a list of at most one location.
searchNearestLocation(response) ==
  IF ~response.ok THEN Rejected("WeatherAPI keresesi hiba (status)")
  ELSE IF ~response.json THEN Rejected("SyntaxError")
  ELSE IF ~response.data.isArray \/ Len(response.data.items) = 0 THEN Resolved(<<>>)
  ELSE IF Len(FilterCountry(response.data.items)) > 0
       THEN Resolved(<< FilterCountry(response.data.items)[1] >>)
       ELSE Resolved(<< response.data.items[1] >>)

\* ----------------------------------------- one call of an API function

\* The body of a response that is not JSON, or of one never read.
NoData == [error |-> Null, message |-> Null, shape |-> "none", entries |-> <<>>]

\* Values of the error field: numeric codes (0 is no code of the API), texts
\* and the empty text.
ErrorValues ==
  { Num(n) : n \in {0, 2, 15, 16, 17, 18} } \cup { Str(t) : t \in ErrorTexts \cup {""} }

\* Parsed bodies with an error field.
ErrorBodies ==
  { [error |-> Some(e), message |-> m, shape |-> "keyed", entries |-> <<>>] :
      e \in ErrorValues, m \in {Null} \cup { Some(t) : t \in ErrorTexts } }

\* Parsed bodies with the entries of a view: a bare array, an object with an
\* `entries` array, or an object with the array under another key.
EntryBodies(view) ==
  { [ error |-> Null, message |-> Null, shape |-> shape,
      entries |-> [ i \in 1 .. n |-> PayloadEntry(view, i, strings) ] ] :
      shape \in {"array", "entries", "keyed"}, n \in 0 .. MaxEntries,
      strings \in SUBSET EntryFields(view) }

\* Parsed bodies of search.json: an array of locations or something else.
SearchBodies ==
  { [isArray |-> FALSE, items |-> <<>>] } \cup
  { [isArray |-> TRUE, items |-> items] :
      items \in UNION { [1 .. n -> { [country |-> c] : c \in {"Hungary", "Austria"} }] :
                        n \in 0 .. MaxEntries } }

\* Parsed bodies of forecast.json.
WeatherBodies ==
  { [ current |-> [last_updated_epoch |-> CurrentEpoch, pressure_mb |-> CurrentPressure],
      hours |-> hours ] :
      hours \in UNION { [1 .. n -> HourlyReadings] : n \in 0 .. MaxHours } }

\* The HTTP responses a call may get: a non-success status, a success with a
\* body that is not JSON, or a success with a JSON body.
Responses(view) ==
  { [ok |-> FALSE, json |-> FALSE, data |-> NoData],
    [ok |-> TRUE, json |-> FALSE, data |-> NoData] } \cup
  { [ok |-> TRUE, json |-> TRUE, data |-> d] :
      d \in IF view \in WaterViews THEN ErrorBodies \cup EntryBodies(view)
            ELSE IF view = "fetchWeather" THEN WeatherBodies
            ELSE SearchBodies }

\* The function called, from the arrival of the response on.
Settle(view, response) ==
  IF view \in WaterViews
  THEN LET called == callApi(response)
       IN  IF called.kind = "rejected" THEN called
           ELSE Resolved(WaterWrapper(view, called.data))
  ELSE IF view = "fetchWeather" THEN fetchWeather(response)
  ELSE IF view = "searchLocations" THEN searchLocations(response)
  ELSE searchNearestLocation(response)

\* The function settles without a request.
ApiSettleAtOnce(result) ==
  /\ apiResult' = Some(result)
  /\ apiPc' = "settled"
  /\ UNCHANGED << apiRequests, apiResponse >>

\* The function is called: it throws for a missing token or key, returns []
\* for an empty query of searchLocations, and otherwise issues its request.
ApiCall ==
  /\ apiPc = "ready"
  /\ IF apiView \in WaterViews /\ ~apiToken
     THEN ApiSettleAtOnce(Rejected("Az OVSZ API token hianyzik"))
     ELSE IF apiView \in WeatherViews /\ ~apiKey
     THEN ApiSettleAtOnce(Rejected("A WeatherAPI kulcs hianyzik"))
     ELSE IF apiView = "searchLocations" /\ apiQuery = ""
     THEN ApiSettleAtOnce(Resolved(<<>>))
     ELSE /\ apiRequests' = apiRequests + 1
          /\ apiPc' = "fetching"
          /\ UNCHANGED << apiResponse, apiResult >>
  /\ UNCHANGED << apiToken, apiKey, apiView, apiQuery >>
  /\ UNCHANGED << inputVars, wtVars, fcVars, trendVars, appVars >>

\* The HTTP response arrives and the function runs to its end.
ApiResponseArrives ==
  /\ apiPc = "fetching"
  /\ \E response \in Responses(apiView) :
       /\ apiResponse' = Some(response)
       /\ apiResult' = Some(Settle(apiView, response))
  /\ apiPc' = "settled"
  /\ UNCHANGED << apiToken, apiKey, apiView, apiQuery, apiRequests >>
  /\ UNCHANGED << inputVars, wtVars, fcVars, trendVars, appVars >>

\* fetch rejects: the network is down.
ApiFetchFails ==
  /\ apiPc = "fetching"
  /\ apiResult' = Some(Rejected("Failed to fetch"))
  /\ apiPc' = "settled"
  /\ UNCHANGED << apiToken, apiKey, apiView, apiQuery, apiRequests, apiResponse >>
  /\ UNCHANGED << inputVars, wtVars, fcVars, trendVars, appVars >>

InitApi ==
  /\ NearestIdle
  /\ TrendIdle
  /\ AppIdle
  /\ apiToken \in BOOLEAN
  /\ apiKey \in BOOLEAN
  /\ apiView \in WaterViews \cup WeatherViews
  /\ apiQuery \in {"", "Baja"}
  /\ apiPc = "ready"
  /\ apiRequests = 0
  /\ apiResponse = Null
  /\ apiResult = Null

NextApi == ApiCall \/ ApiResponseArrives \/ ApiFetchFails

SpecApi == InitApi /\ [][NextApi]_vars

\* -------------------------------------------- the pressure trend (weather)

\* fetchWeather has returned its data.
WeatherReturned ==
  /\ apiView = "fetchWeather"
  /\ ~IsNull(apiResult)
  /\ apiResult[1].kind = "resolved"

\* The readings of the answer with a timestamp before the observation's.
ReadingsBefore ==
  LET data == apiResponse[1].data
  IN  { i \in 1 .. Len(data.hours) :
          data.hours[i].time_epoch < data.current.last_updated_epoch }

\* The trend that goes with the difference current - previous (in tenths).
TrendOfDelta(delta) ==
  IF Abs(delta) < 5 THEN "stabil" ELSE IF delta >= 5 THEN "emelkedo" ELSE "csokkeno"

\* C14: the pressure trend of fetchWeather is stabil when no hourly reading
\* is older than the observation; otherwise it compares the current pressure
\* with that of a reading of the greatest timestamp before the observation's:
\* stabil below 0.5, emelkedo from 0.5 on, csokkeno from -0.5 down.
C14_PressureTrend ==
  WeatherReturned =>
    LET data == apiResponse[1].data
        pressureTrend == apiResult[1].data[1].pressureTrend
    IN  IF ReadingsBefore = {} THEN pressureTrend = "stabil"
        ELSE \E i \in ReadingsBefore :
               /\ \A j \in ReadingsBefore :
                    data.hours[j].time_epoch <= data.hours[i].time_epoch
               /\ pressureTrend = TrendOfDelta(data.current.pressure_mb - data.hours[i].pressure_mb)

\* The answer lists the reading of two hours before (at the current
\* pressure) and then the one of the hour before (0.5 hPa lower): the trend
\* is emelkedo.
C14_Witness ==
  /\ WeatherReturned
  /\ Len(apiResponse[1].data.hours) = 2
  /\ apiResponse[1].data.hours[1] = [time_epoch |-> 1, pressure_mb |-> CurrentPressure]
  /\ apiResponse[1].data.hours[2] = [time_epoch |-> 2, pressure_mb |-> CurrentPressure - 5]
  /\ apiResult[1].data[1].pressureTrend = "emelkedo"

\* ------------------------------------------- failures of the API functions

\* A function of the hydrological API has settled on an HTTP response.
WaterSettled ==
  /\ apiView \in WaterViews
  /\ apiPc = "settled"
  /\ ~IsNull(apiResponse)

\* The response is a success whose JSON body carries an error field.
CarriesErrorField ==
  /\ WaterSettled
  /\ apiResponse[1].ok
  /\ apiResponse[1].json
  /\ ~IsNull(apiResponse[1].data.error)

\* The text reports that there is no forecast.
MentionsMissingForecast(text) == text = "no forecast available"

\* The body denotes the forecast-unavailable condition: code 16, 17 or 18, or
\* an error or message text that reports a missing forecast.
ForecastUnavailable(data) ==
  \/ data.error[1].t = "number" /\ data.error[1].n \in {16, 17, 18}
  \/ data.error[1].t = "string" /\ MentionsMissingForecast(data.error[1].s)
  \/ ~IsNull(data.message) /\ MentionsMissingForecast(data.message[1])

\* C15: for a response whose body carries an error field the call rejects,
\* with the error NO_FORECAST exactly when the body denotes the
\* forecast-unavailable condition and with another error otherwise.
C15_ErrorClassification ==
  CarriesErrorField =>
    /\ apiResult[1].kind = "rejected"
    /\ apiResult[1].error = "NO_FORECAST" <=> ForecastUnavailable(apiResponse[1].data)

\* C16: at the layers of the API the absence outcomes are results, not
\* failures: getForecast returns an empty list when the API answers that the
\* station has no forecast (code 16, 17 or 18), and getNearestMeasurements
\* returns null when the answer holds no entry.
C16_AbsenceIsNotThrown ==
  /\ ( /\ CarriesErrorField
       /\ apiView = "getForecast"
       /\ apiResponse[1].data.error[1] \in { Num(16), Num(17), Num(18) } )
     => apiResult[1] = Resolved(<<>>)
  /\ ( /\ WaterSettled
       /\ apiView = "getNearestMeasurements"
       /\ apiResponse[1].ok
       /\ apiResponse[1].json
       /\ IsNull(apiResponse[1].data.error)
       /\ Len(apiResponse[1].data.entries) = 0 )
     => apiResult[1] = Resolved(<<>>)

\* A call has settled as a rejection that returns no data.
ApiRejected ==
  /\ apiPc = "settled"
  /\ apiResult[1].kind = "rejected"
  /\ apiResult[1].data = <<>>

\* A call of the weather API fails upstream: the key is missing or the HTTP
\* status is not a success.
WeatherFailure ==
  /\ apiView \in WeatherViews
  /\ apiPc = "settled"
  /\ \/ ~apiKey
     \/ ~IsNull(apiResponse) /\ ~apiResponse[1].ok

\* A call of the hydrological API fails upstream otherwise than by the
\* body's error field: the token is missing, the HTTP status is not a
\* success, or the body is not JSON.
WaterFailure ==
  /\ apiView \in WaterViews
  /\ apiPc = "settled"
  /\ \/ ~apiToken
     \/ ~IsNull(apiResponse) /\ ~apiResponse[1].ok
     \/ ~IsNull(apiResponse) /\ ~apiResponse[1].json

\* A call with a missing token or key settles with no request issued.
NoRequestWithoutCredential ==
  /\ (apiView \in WaterViews /\ ~apiToken) => apiRequests = 0
  /\ (apiView \in WeatherViews /\ ~apiKey) => apiRequests = 0

CarriesSetErrorField == CarriesErrorField /\ IsTruthy(apiResponse[1].data.error[1])

C19_NumericFieldsAreNumbers ==
  ( /\ WaterSettled
    /\ apiResult[1].kind = "resolved" )
  => \A i \in 1 .. Len(apiResult[1].data), f \in NumericFields :
       ~IsNull(apiResult[1].data[i][f]) => apiResult[1].data[i][f][1].t = "number"

\* ------------------------------------------ failed requests in the effects

\* This step is the catch block of a water-temperature request that was not
\* cancelled.
WtFailureStep == wtExit # "catch" /\ wtExit' = "catch" /\ ~wtCancelled

\* This step handles an upstream failure of a forecast request that was not
\* cancelled: of the home station's request, or of a request of the
\* fallback search.
FcFailureStep ==
  /\ fcExit \notin {"error", "fallbackError"}
  /\ fcExit' \in {"error", "fallbackError"}
  /\ ~fcCancelled

\* C18: a failed request of the water-temperature or forecast effect that
\* was not cancelled sets the error message of its kind and leaves the data
\* of its kind as it was (the weather and water-level effects are not part
\* of this model).
C18_FailureKeepsData ==
  [][ /\ WtFailureStep =>
           /\ ~IsNull(waterTemperatureError')
           /\ waterTemperatureData' = waterTemperatureData
      /\ FcFailureStep =>
           /\ ~IsNull(forecastError')
           /\ forecastData' = forecastData
           /\ forecastStationId' = forecastStationId ]_vars

\* ---------------------------------------------- symmetry of the distance

\* Coordinate pairs on the 60 degree grid, both hemispheres and both sides
\* of the prime meridian.
GridPoints == {-60, 0, 60} \X {-120, -60, 0, 60, 120, 180}

\* On the grid, calculateDistance has the same value with its two coordinate
\* pairs exchanged, and the value 0 for a pair and itself.
SymmetricOnGrid ==
  \A a \in GridPoints : \A b \in GridPoints :
    /\ calculateDistance(a[1], a[2], b[1], b[2])
         = calculateDistance(b[1], b[2], a[1], a[2])
    /\ calculateDistance(a[1], a[2], a[1], a[2]) = 0

\* C20: calculateDistance gives the same distance with its two coordinate
\* pairs exchanged, and 0 for a pair and itself; in particular the distance
\* a scan has recorded for its selected candidate is the distance from that
\* candidate back to the reference coordinate.
C20_DistanceSymmetric ==
  /\ SymmetricOnGrid
  /\ (WtScanRan /\ ~IsNull(nearestEntry)) =>
       wtMinDistance =
         Some(calculateDistance(EntryLat(nearestEntry[1]), EntryLon(nearestEntry[1]),
                                coordinates[1].lat, coordinates[1].lon))
  /\ (FcScanRan /\ ~IsNull(nearestStation)) =>
       fcMinDistance =
         Some(calculateDistance(nearestStation[1].lat, nearestStation[1].lon,
                                currentLat[1], currentLon[1]))

\* The water-temperature scan has selected an entry away from the reference
\* coordinate, at a latitude other than the reference's.
C20_Witness ==
  /\ WtScanRan
  /\ ~IsNull(nearestEntry)
  /\ EntryLat(nearestEntry[1]) # coordinates[1].lat
  /\ wtMinDistance # Null
  /\ wtMinDistance[1] > 0

\* ------------------------------------------------------ the location form

\* What the user types into the location field.
Inputs == {"", " ", "B", "Baja", "Szeged"}

\* string.trim()
Trim(text) == IF text = " " THEN "" ELSE text

\* string.length
Length(text) ==
  CASE text = "" -> 0
    [] text \in {" ", "B"} -> 1
    [] text \in {"Baja", "Bacs"} -> 4
    [] text = "Szeged" -> 6
    [] text = "Baja, Bacs" -> 10

\* a || b for strings: the first one that is not empty.
OrText(a, b) == IF a # "" THEN a ELSE b

\* records.find(record => record.id === selectedRecordId) ?? null
SelectedRecordOf(list, id) ==
  IF IsNull(id) \/ ~\E i \in 1 .. Len(list) : list[i].id = id[1]
  THEN Null
  ELSE Some(list[CHOOSE i \in 1 .. Len(list) :
                   /\ list[i].id = id[1]
                   /\ \A k \in 1 .. i - 1 : list[k].id # id[1]])

selectedRecord == SelectedRecordOf(records, selectedRecordId)

\* ------------------------------------------------ the state of the page

\* The React state of App (with the listener's subscription and the closure
\* flags of the runs in flight) that the effects read and write, as one
\* record.
app ==
  [ user |-> user,
    records |-> records,
    selectedRecordId |-> selectedRecordId,
    location |-> location,
    locationQuery |-> locationQuery,
    coordinates |-> coordinates,
    weatherData |-> weatherData,
    weatherLoading |-> weatherLoading,
    weatherError |-> weatherError,
    weatherRuns |-> weatherRuns,
    locationSuggestions |-> locationSuggestions,
    locationSuggestionLoading |-> locationSuggestionLoading,
    locationSuggestionError |-> locationSuggestionError,
    suggestTimer |-> suggestTimer,
    suggestRuns |-> suggestRuns,
    listening |-> listening,
    snapshotDue |-> snapshotDue,
    waterLevelVarId |-> waterLevelVarId,
    waterTemperatureVarId |-> waterTemperatureVarId,
    waterData |-> waterData,
    waterTemperatureData |-> waterTemperatureData,
    wtCancelled |-> wtCancelled,
    forecastData |-> forecastData,
    fcCancelled |-> fcCancelled,
    stationDetails |-> stationDetails ]

\* The state becomes record a.
SetApp(a) ==
  /\ user' = a.user
  /\ records' = a.records
  /\ selectedRecordId' = a.selectedRecordId
  /\ location' = a.location
  /\ locationQuery' = a.locationQuery
  /\ coordinates' = a.coordinates
  /\ weatherData' = a.weatherData
  /\ weatherLoading' = a.weatherLoading
  /\ weatherError' = a.weatherError
  /\ weatherRuns' = a.weatherRuns
  /\ locationSuggestions' = a.locationSuggestions
  /\ locationSuggestionLoading' = a.locationSuggestionLoading
  /\ locationSuggestionError' = a.locationSuggestionError
  /\ suggestTimer' = a.suggestTimer
  /\ suggestRuns' = a.suggestRuns
  /\ listening' = a.listening
  /\ snapshotDue' = a.snapshotDue
  /\ waterLevelVarId' = a.waterLevelVarId
  /\ waterTemperatureVarId' = a.waterTemperatureVarId
  /\ waterData' = a.waterData
  /\ waterTemperatureData' = a.waterTemperatureData
  /\ wtCancelled' = a.wtCancelled
  /\ forecastData' = a.forecastData
  /\ fcCancelled' = a.fcCancelled
  /\ stationDetails' = a.stationDetails

\* The state of the two effects that SetApp does not write.
restOfEffects ==
  << dbStations, waterTemperatureError, waterTemperatureLoading, wtPc, wtExit,
     validMeasurements, nearestEntry, wtMinDistance,
     forecastError, forecastStationId, forecastLoading, fcPc, fcExit,
     allStations, stationsWithForecast, probeIndex, testForecast,
     currentLat, currentLon, nearestStation, fcMinDistance >>

\* The selected record of state a.
RecordOf(a) == SelectedRecordOf(a.records, a.selectedRecordId)

\* The useMemo value selectedRecord is another object in render b than in
\* render a: another record is selected, or the listener has replaced the
\* record objects (fresh) and one of them is selected.
RecordChanged(a, b, fresh) ==
  RecordOf(a) # RecordOf(b) \/ (fresh /\ ~IsNull(RecordOf(b)))

\* ------------------------------------------------------------ the effects
\*
\* Each effect is given the state a of the render before, the state b of the
\* render it runs after, and the state s the effects of this commit have
\* built so far; it reads b and gives s with its updates.

\* A cleanup that sets no flag.
KeepRuns(runs) == runs

\* The cleanup of an effect that starts requests: `cancelled = true` in the
\* closure of the run started last; the earlier runs are cancelled already.
CancelRuns(runs) ==
  [ i \in 1 .. Len(runs) |-> [runs[i] EXCEPT !.cancelled = TRUE] ]

\* The auth / records effect, deps [authLoading, user].
RecordsEffect(a, b, s) ==
  IF a.user = b.user THEN s
  ELSE IF IsNull(b.user)
       THEN [s EXCEPT !.listening = FALSE, !.snapshotDue = FALSE,
                      !.records = <<>>, !.selectedRecordId = Null,
                      !.location = "", !.locationQuery = "",
                      !.coordinates = Null]
       ELSE [s EXCEPT !.listening = TRUE, !.snapshotDue = TRUE]

\* The selection effect, deps [records, selectedRecordId, user].
SelectionEffect(a, b, fresh, s) ==
  IF a.records = b.records /\ ~fresh /\ a.selectedRecordId = b.selectedRecordId
       /\ a.user = b.user
  THEN s
  ELSE IF IsNull(b.user) THEN [s EXCEPT !.selectedRecordId = Null]
  ELSE IF Len(b.records) = 0
       THEN [s EXCEPT !.selectedRecordId = Null,
                      !.location = "", !.locationQuery = "",
                      !.coordinates = Null,
                      !.weatherData = Null, !.weatherError = Null]
  ELSE IF ~IsNull(RecordOf(b)) THEN s
  ELSE [s EXCEPT !.selectedRecordId = Some(b.records[1].id)]

\* The debounce delay, 400 ms, in steps of 100 ms.
DebounceSteps == 4

\* The suggestions effect, deps [location, selectedRecord, user].
SuggestionsEffect(a, b, fresh, s) ==
  IF a.location = b.location /\ ~RecordChanged(a, b, fresh) /\ a.user = b.user
  THEN s
  ELSE LET query == Trim(b.location)
           selectedLocationTrimmed ==
             IF IsNull(RecordOf(b)) THEN ""
             ELSE Trim(RecordOf(b)[1].locationName)
           cleaned == [s EXCEPT !.suggestTimer = Null,
                                !.suggestRuns = CancelRuns(s.suggestRuns)]
       IN  IF \/ IsNull(b.user)
              \/ Length(query) < 2
              \/ (selectedLocationTrimmed # "" /\ query = selectedLocationTrimmed)
           THEN [cleaned EXCEPT !.locationSuggestions = <<>>,
                                !.locationSuggestionLoading = FALSE]
           ELSE [cleaned EXCEPT !.locationSuggestionLoading = TRUE,
                                !.locationSuggestionError = Null,
                                !.suggestTimer =
                                  Some([query |-> query, left |-> DebounceSteps])]

\* The coordinates effect, deps [selectedRecord].
CoordinatesEffect(a, b, fresh, s) ==
  IF ~RecordChanged(a, b, fresh) \/ IsNull(RecordOf(b))
       \/ IsNull(RecordOf(b)[1].coordinates)
  THEN s
  ELSE [s EXCEPT !.coordinates = RecordOf(b)[1].coordinates]

\* The effect's query: trimmedQuery || trimmedInput || recordQuery || recordName
WeatherQuery(b) ==
  OrText(Trim(b.locationQuery),
    OrText(Trim(b.location),
      IF IsNull(RecordOf(b)) THEN ""
      ELSE OrText(Trim(RecordOf(b)[1].locationQuery),
                  Trim(RecordOf(b)[1].locationName))))

\* The weather effect, deps [location, locationQuery, selectedRecord, user]:
\* the cleanup of the last run and the body up to the first await of
\* loadWeather.
WeatherEffect(a, b, fresh, s) ==
  IF a.location = b.location /\ a.locationQuery = b.locationQuery
       /\ ~RecordChanged(a, b, fresh) /\ a.user = b.user
  THEN s
  ELSE LET cleaned == [s EXCEPT !.weatherRuns = CancelRuns(s.weatherRuns)]
       IN  IF IsNull(b.user) \/ WeatherQuery(b) = ""
           THEN [cleaned EXCEPT !.weatherData = Null]
           ELSE [cleaned EXCEPT
                   !.weatherLoading = TRUE,
                   !.weatherError = Null,
                   !.weatherRuns =
                     Append(cleaned.weatherRuns,
                            [query |-> WeatherQuery(b), cancelled |-> FALSE])]

\* The variable-id effect, deps [user]; a signed-in user's getVariables
\* request is not followed here.
VariableIdsEffect(a, b, s) ==
  IF a.user = b.user \/ ~IsNull(b.user) THEN s
  ELSE [s EXCEPT !.waterLevelVarId = Null]

\* The water-level effect, deps [coordinates, waterLevelVarId, user]; a
\* request it starts is not followed here.
WaterLevelEffect(a, b, s) ==
  IF a.coordinates = b.coordinates /\ a.waterLevelVarId = b.waterLevelVarId
       /\ a.user = b.user
  THEN s
  ELSE IF IsNull(b.user) \/ IsNull(b.coordinates) \/ IsNull(b.waterLevelVarId)
       THEN [s EXCEPT !.waterData = Null]
       ELSE s

\* A run of loadWaterTemperatureData or of loadForecast is cancelled when
\* its effect runs again while its request is in flight.
WtCancelledByRerun(s) ==
  s.wtCancelled \/ wtPc \in {"getWaters", "getMeasurements"}

FcCancelledByRerun(s) ==
  s.fcCancelled
    \/ fcPc \in {"home", "getStations", "getVariableStations", "probe", "nearest"}

\* The water-temperature effect run again, deps [coordinates,
\* waterTemperatureVarId, user, waterData]: the cleanup, and the early
\* return when an input is missing.
WaterTemperatureEffect(a, b, s) ==
  IF a.coordinates = b.coordinates
       /\ a.waterTemperatureVarId = b.waterTemperatureVarId
       /\ a.user = b.user /\ a.waterData = b.waterData
  THEN s
  ELSE LET cleaned == [s EXCEPT !.wtCancelled = WtCancelledByRerun(s)]
       IN  IF \/ IsNull(b.user) \/ IsNull(b.coordinates)
              \/ IsNull(b.waterTemperatureVarId) \/ IsNull(b.waterData)
              \/ IsNull(b.waterData[1].water)
           THEN [cleaned EXCEPT !.waterTemperatureData = Null]
           ELSE cleaned

\* The forecast effect run again, deps [waterData, waterLevelVarId, user]:
\* the cleanup, and the early return when an input is missing.
ForecastEffect(a, b, s) ==
  IF a.waterData = b.waterData /\ a.waterLevelVarId = b.waterLevelVarId
       /\ a.user = b.user
  THEN s
  ELSE LET cleaned == [s EXCEPT !.fcCancelled = FcCancelledByRerun(s)]
       IN  IF IsNull(b.user) \/ IsNull(b.waterData) \/ IsNull(b.waterLevelVarId)
           THEN [cleaned EXCEPT !.forecastData = Null]
           ELSE cleaned

\* The station-details effect, deps [waterData, user]; a request it starts
\* is not followed here.
StationDetailsEffect(a, b, s) ==
  IF a.waterData = b.waterData /\ a.user = b.user THEN s
  ELSE IF IsNull(b.user) \/ IsNull(b.waterData)
       THEN [s EXCEPT !.stationDetails = Null]
       ELSE s

\* One commit: after the render of state b, which follows the render of
\* state a, the effects whose dependencies changed run in the order of
\* their declaration; their updates are batched into the next state.
Commit(a, b, fresh) ==
  LET s1 == RecordsEffect(a, b, b)
      s2 == SelectionEffect(a, b, fresh, s1)
      s3 == SuggestionsEffect(a, b, fresh, s2)
      s4 == CoordinatesEffect(a, b, fresh, s3)
      s5 == WeatherEffect(a, b, fresh, s4)
      s6 == VariableIdsEffect(a, b, s5)
      s7 == WaterLevelEffect(a, b, s6)
      s8 == WaterTemperatureEffect(a, b, s7)
      s9 == ForecastEffect(a, b, s8)
  IN  StationDetailsEffect(a, b, s9)

\* The renders and commits that follow a state update, until an effect
\* round changes nothing: a is the state before the update, b after it.
RECURSIVE Settled(_, _, _)
Settled(a, b, fresh) ==
  LET next == Commit(a, b, fresh)
  IN  IF next = b THEN b ELSE Settled(b, next, FALSE)

\* Most runs of loadWeather with a request in flight at one time.
MaxWeatherRuns == 2

\* The time since the location field last changed, after a step to state n.
AgeAfter(n) == IF n.location # location THEN 0 ELSE inputAge

\* A state update to b, the renders and the effects that follow it.
Update(b, fresh) ==
  \E n \in { Settled(app, b, fresh) } :
    /\ Len(n.weatherRuns) <= MaxWeatherRuns
    /\ SetApp(n)
    /\ inputAge' = AgeAfter(n)

\* ------------------------------------------------------ the location form

\* handleLocationChange: the user edits the location field, which is
\* enabled for a signed-in user.
HandleLocationChange ==
  /\ ~IsNull(user)
  /\ \E text \in Inputs \ {location} :
       LET b == [app EXCEPT !.location = text, !.locationQuery = text,
                            !.coordinates = Null]
       IN  Update(b, FALSE)
  /\ UNCHANGED << restOfEffects, trendVars, apiVars, dbRecords, saveVars,
                  authVars >>

\* runs without run i.
WithoutRun(runs, i) ==
  [ k \in 1 .. Len(runs) - 1 |-> IF k < i THEN runs[k] ELSE runs[k + 1] ]

\* What the completion of a weather request leaves alone.
weatherKept ==
  << inputVars, wtVars, fcVars, trendVars, apiVars, location, locationQuery,
     suggestVars, recordVars, storeVars, saveVars, authVars, stationDetails >>

\* fetchWeather resolves for one of the runs in flight.
WeatherResolves ==
  \E i \in 1 .. Len(weatherRuns) :
    /\ IF weatherRuns[i].cancelled
       THEN UNCHANGED << weatherData, weatherLoading >>
       ELSE /\ weatherData' = Some(weatherRuns[i].query)
            /\ weatherLoading' = FALSE
    /\ weatherRuns' = WithoutRun(weatherRuns, i)
    /\ UNCHANGED << weatherError, weatherKept >>

WeatherErrFailed == "could not fetch the weather data"

\* fetchWeather rejects for one of the runs in flight.
WeatherRejects ==
  \E i \in 1 .. Len(weatherRuns) :
    /\ IF weatherRuns[i].cancelled
       THEN UNCHANGED << weatherError, weatherLoading >>
       ELSE /\ weatherError' = Some(WeatherErrFailed)
            /\ weatherLoading' = FALSE
    /\ weatherRuns' = WithoutRun(weatherRuns, i)
    /\ UNCHANGED << weatherData, weatherKept >>

\* The signed-in user has no saved record and an empty form.
InitWeather ==
  /\ NearestIdle
  /\ TrendIdle
  /\ ApiIdle
  /\ AppIdle

NextWeather ==
  \/ HandleLocationChange
  \/ WeatherResolves
  \/ WeatherRejects

SpecWeather == InitWeather /\ [][NextWeather]_vars

\* C24: whenever no run of loadWeather that is not cancelled has its
\* request in flight, weatherLoading is false.
C24_LoadingFlagsClear ==
  (\A i \in 1 .. Len(weatherRuns) : weatherRuns[i].cancelled) =>
    ~weatherLoading

\* ------------------------------------------------- sign-in and sign-out

\* Most provider calls followed at one time.
MaxAuthCalls == 2

\* A guard that lets every call through.
AuthActionGuardOpen(running) == FALSE

\* `if (isAuthActionRunning) return`, on the value the callback closed over.
AuthActionGuard(running) == running

\* The state and the callbacks after a call has passed the guard:
\* setIsAuthActionRunning(true), rendered before the click event ends, and
\* the provider call of that kind in flight.
AuthCallIssued(kind) ==
  /\ Len(authCalls) < MaxAuthCalls
  /\ isAuthActionRunning' = TRUE
  /\ authRendered' = TRUE
  /\ authCalls' = Append(authCalls, [kind |-> kind, stage |-> "called"])
  /\ authLast' = "issued"

\* handleSignIn, from the sign-in button shown to a signed-out visitor:
\* signInWithGoogle up to its await.
HandleSignIn ==
  /\ IsNull(user)
  /\ IF AuthActionGuard(authRendered)
     THEN /\ authLast' = "returned"
          /\ UNCHANGED << isAuthActionRunning, authRendered, authCalls >>
     ELSE AuthCallIssued("signIn")
  /\ UNCHANGED << inputVars, wtVars, fcVars, trendVars, apiVars, weatherVars,
                  suggestVars, recordVars, storeVars, saveVars, stationDetails >>

\* The state updates of handleSignOut after `await signOutUser()`.
SignedOutState ==
  [ app EXCEPT
      !.location = "", !.records = <<>>, !.selectedRecordId = Null,
      !.locationSuggestions = <<>>,
      !.weatherData = Null, !.weatherError = Null, !.weatherLoading = FALSE,
      !.locationSuggestionError = Null,
      !.locationQuery = "", !.coordinates = Null,
      !.waterData = Null, !.waterLevelVarId = Null,
      !.waterTemperatureData = Null, !.waterTemperatureVarId = Null,
      !.forecastData = Null, !.stationDetails = Null ]

\* The rest of handleSignOut after `await signOutUser()`, with the effects
\* that follow it.
SignOutContinues ==
  /\ Update(SignedOutState, FALSE)
  /\ saveMessage' = "none"
  /\ waterTemperatureError' = Null
  /\ waterTemperatureLoading' = FALSE
  /\ forecastError' = Null
  /\ forecastLoading' = FALSE
  /\ forecastStationId' = Null
  /\ UNCHANGED << dbStations, wtPc, wtExit, validMeasurements, nearestEntry,
                  wtMinDistance, fcPc, fcExit, allStations,
                  stationsWithForecast, probeIndex, testForecast, currentLat,
                  currentLon, nearestStation, fcMinDistance >>
  /\ UNCHANGED << trendVars, apiVars, dbRecords, saveRuns, isSaving, savedId >>

\* handleSignOut, from the sign-out button shown to a signed-in user:
\* signOutUser up to its await; when signOutUser returns at its guard,
\* handleSignOut goes on at once.
HandleSignOut ==
  /\ ~IsNull(user)
  /\ IF AuthActionGuard(authRendered)
     THEN /\ authLast' = "returned"
          /\ UNCHANGED << isAuthActionRunning, authRendered, authCalls >>
          /\ SignOutContinues
     ELSE /\ AuthCallIssued("signOut")
          /\ UNCHANGED << inputVars, wtVars, fcVars, trendVars, apiVars,
                          weatherVars, suggestVars, recordVars, storeVars,
                          saveVars, stationDetails >>

\* The identity provider completes a call's work and onAuthStateChanged
\* delivers the new user.
AuthStateChanges ==
  \E i \in 1 .. Len(authCalls) :
    /\ authCalls[i].stage = "called"
    /\ authCalls' = [authCalls EXCEPT ![i].stage = "applied"]
    /\ LET firebaseUser == IF authCalls[i].kind = "signIn"
                           THEN Some("uid") ELSE Null
       IN  Update([app EXCEPT !.user = firebaseUser], FALSE)
    /\ UNCHANGED << isAuthActionRunning, authRendered, authLast >>
    /\ UNCHANGED << restOfEffects, trendVars, apiVars, dbRecords, saveVars >>

\* signInWithPopup or signOut resolves: the `finally` of the callback, and
\* after a sign-out the rest of handleSignOut.
ProviderResolves ==
  \E i \in 1 .. Len(authCalls) :
    /\ authCalls[i].stage = "applied"
    /\ authCalls' = WithoutRun(authCalls, i)
    /\ isAuthActionRunning' = FALSE
    /\ UNCHANGED << authRendered, authLast >>
    /\ IF authCalls[i].kind = "signOut"
       THEN SignOutContinues
       ELSE UNCHANGED << inputVars, wtVars, fcVars, trendVars, apiVars,
                         weatherVars, suggestVars, recordVars, storeVars,
                         saveVars, stationDetails >>

\* signInWithPopup or signOut rejects: the `finally` of the callback.
ProviderRejects ==
  \E i \in 1 .. Len(authCalls) :
    /\ authCalls[i].stage = "called"
    /\ authCalls' = WithoutRun(authCalls, i)
    /\ isAuthActionRunning' = FALSE
    /\ UNCHANGED << authRendered, authLast >>
    /\ UNCHANGED << inputVars, wtVars, fcVars, trendVars, apiVars,
                    weatherVars, suggestVars, recordVars, storeVars,
                    saveVars, stationDetails >>

\* The render that follows the `finally` of a callback: signInWithGoogle and
\* signOutUser are created anew on the current flag.
AuthRender ==
  /\ authRendered # isAuthActionRunning
  /\ authRendered' = isAuthActionRunning
  /\ UNCHANGED << isAuthActionRunning, authCalls, authLast >>
  /\ UNCHANGED << inputVars, wtVars, fcVars, trendVars, apiVars, weatherVars,
                  suggestVars, recordVars, storeVars, saveVars, stationDetails >>

\* ------------------------------------------------ the location suggestions

\* Most searches followed at one time.
MaxSuggestRuns == 2

\* The places the search service knows (name, region and position).
Places ==
  { [name |-> "Baja", region |-> "Bacs", lat |-> 46, lon |-> 19],
    [name |-> "Szeged", region |-> "", lat |-> 46, lon |-> 20],
    [name |-> "", region |-> "Bacs", lat |-> 47, lon |-> 19] }

\* The lists searchLocations may resolve with.
SearchResults ==
  { <<>> } \cup { << p >> : p \in Places }

\* 100 ms pass with no timer due.
Tick ==
  /\ IF IsNull(suggestTimer) THEN inputAge < DebounceSteps
     ELSE suggestTimer[1].left > 0
  /\ inputAge' = IF inputAge < DebounceSteps THEN inputAge + 1 ELSE inputAge
  /\ suggestTimer' =
       IF IsNull(suggestTimer) THEN Null
       ELSE Some([suggestTimer[1] EXCEPT !.left = @ - 1])
  /\ UNCHANGED << inputVars, wtVars, fcVars, trendVars, apiVars, weatherVars,
                  locationSuggestions, locationSuggestionLoading,
                  locationSuggestionError, suggestRuns, recordVars, storeVars, saveVars, authVars, stationDetails >>

\* The timer of the suggestions effect fires: searchLocations(query) is
\* called.
SuggestTimerFires ==
  /\ ~IsNull(suggestTimer)
  /\ suggestTimer[1].left = 0
  /\ Len(suggestRuns) < MaxSuggestRuns
  /\ suggestRuns' =
       Append(suggestRuns, [query |-> suggestTimer[1].query, cancelled |-> FALSE])
  /\ suggestTimer' = Null
  /\ UNCHANGED << inputVars, wtVars, fcVars, trendVars, apiVars, weatherVars,
                  locationSuggestions, locationSuggestionLoading,
                  locationSuggestionError, inputAge, recordVars, storeVars, saveVars, authVars, stationDetails >>

SearchErrFailed == "could not find places"

\* What the completion of a search leaves alone.
suggestKept ==
  << inputVars, wtVars, fcVars, trendVars, apiVars, weatherVars, suggestTimer,
     inputAge, recordVars, storeVars, saveVars, authVars, stationDetails >>

\* searchLocations resolves for one of the searches in flight.
SearchResolves ==
  \E i \in 1 .. Len(suggestRuns) : \E results \in SearchResults :
    /\ IF suggestRuns[i].cancelled
       THEN UNCHANGED << locationSuggestions, locationSuggestionLoading >>
       ELSE /\ locationSuggestions' = results
            /\ locationSuggestionLoading' = FALSE
    /\ suggestRuns' = WithoutRun(suggestRuns, i)
    /\ UNCHANGED << locationSuggestionError, suggestKept >>

\* searchLocations rejects for one of the searches in flight.
SearchRejects ==
  \E i \in 1 .. Len(suggestRuns) :
    /\ IF suggestRuns[i].cancelled
       THEN UNCHANGED << locationSuggestions, locationSuggestionLoading,
                         locationSuggestionError >>
       ELSE /\ locationSuggestions' = <<>>
            /\ locationSuggestionLoading' = FALSE
            /\ locationSuggestionError' = Some(SearchErrFailed)
    /\ suggestRuns' = WithoutRun(suggestRuns, i)
    /\ UNCHANGED suggestKept

\* ------------------------------------------------------- saving a record

\* Most records in the store, and most calls of addRecord in flight.
MaxRecords == 2
MaxSaveRuns == 2

\* [name, region].filter(Boolean).join(', ')
DisplayName(place) ==
  IF place.name = "" THEN place.region
  ELSE IF place.region = "" THEN place.name
  ELSE "Baja, Bacs"

\* sanitize: the keys of input whose value is not undefined.
Sanitize(input) ==
  [ k \in { key \in DOMAIN input : ~IsNull(input[key]) } |-> input[k] ]

\* data.key ?? fallback
Field(data, key, fallback) ==
  IF key \in DOMAIN data /\ ~IsNull(data[key]) THEN data[key][1] ELSE fallback

\* data.key of an optional field: undefined when the key is absent
OptionalField(data, key) ==
  IF key \in DOMAIN data THEN data[key] ELSE Null

\* mapDoc: the LocationRecord of a stored document.
MapDoc(uid, snapshot) ==
  [ id |-> snapshot.id,
    ownerUid |-> Field(snapshot.data, "ownerUid", uid),
    locationName |-> Field(snapshot.data, "locationName", ""),
    locationQuery |-> Field(snapshot.data, "locationQuery", ""),
    coordinates |-> OptionalField(snapshot.data, "coordinates"),
    createdAt |-> Field(snapshot.data, "createdAt", 0),
    updatedAt |-> Field(snapshot.data, "updatedAt", 0),
    weatherSnapshot |-> OptionalField(snapshot.data, "weatherSnapshot") ]

\* Date.now() at a call of addRecord: later than every call before it.
LatestStamp(stamps) ==
  IF stamps = {} THEN 0
  ELSE LET s == CHOOSE x \in stamps : \A y \in stamps : y <= x IN s

DateNow ==
  1 + LatestStamp({ dbRecords[i].data.updatedAt[1] : i \in 1 .. Len(dbRecords) }
                    \cup { saveRuns[i].doc.updatedAt[1] : i \in 1 .. Len(saveRuns) })

\* The collection in the order of the listener's query, orderBy('updatedAt',
\* 'desc'), with one more document.
InsertByUpdatedAt(list, document) ==
  LET before == SelectSeq(list, LAMBDA d :
                  d.data.updatedAt[1] > document.data.updatedAt[1])
      after == SelectSeq(list, LAMBDA d :
                  d.data.updatedAt[1] <= document.data.updatedAt[1])
  IN  before \o << document >> \o after

\* addRecord(uid, payload) up to its await: the document handed to addDoc.
AddRecordDoc(uid, payload) ==
  Sanitize([ locationName |-> payload.locationName,
             locationQuery |-> payload.locationQuery,
             coordinates |-> payload.coordinates,
             weatherSnapshot |-> payload.weatherSnapshot,
             ownerUid |-> Some(uid),
             createdAt |-> Some(DateNow),
             updatedAt |-> Some(DateNow) ])

\* A guard that lets every place through.
EmptyPlaceNever(locationName, query) == FALSE

\* `if (!locationName || !query) throw`
EmptyPlace(locationName, query) == locationName = "" \/ query = ""

\* saveLocation up to its await, called by caller `via` in the render of
\* state a with the (trimmed) name, query and coordinates it resolved: it
\* throws, or calls addRecord.
SaveLocation(via, a, locationName, query, nextCoordinates) ==
  IF IsNull(a.user) \/ EmptyPlace(locationName, query)
  THEN /\ saveMessage' = IF via = "button" THEN "failed" ELSE "failedSuggestion"
       /\ isSaving' = IF via = "button" THEN FALSE ELSE isSaving
       /\ UNCHANGED << saveRuns, savedId >>
  ELSE /\ Len(dbRecords) + Len(saveRuns) < MaxRecords
       /\ Len(saveRuns) < MaxSaveRuns
       /\ saveRuns' =
            Append(saveRuns,
              [ via |-> via, uid |-> a.user[1], stage |-> "pending", id |-> 0,
                locationName |-> locationName, locationQuery |-> query,
                coordinates |-> nextCoordinates,
                doc |-> AddRecordDoc(a.user[1],
                          [ locationName |-> Some(locationName),
                            locationQuery |-> Some(query),
                            coordinates |-> nextCoordinates,
                            weatherSnapshot |-> a.weatherData ]) ])
       /\ saveMessage' = IF via = "button" THEN "saving" ELSE saveMessage
       /\ isSaving' = IF via = "button" THEN TRUE ELSE isSaving
       /\ UNCHANGED savedId

\* handleSave, from the save button, which is enabled for a signed-in user
\* with a non-empty location while no save of the button is under way.
HandleSave ==
  /\ ~isSaving
  /\ ~IsNull(user)
  /\ Length(Trim(location)) # 0
  /\ SaveLocation("button", app, Trim(location), Trim(locationQuery),
                  coordinates)
  /\ UNCHANGED << inputVars, wtVars, fcVars, trendVars, apiVars, weatherVars,
                  suggestVars, recordVars, storeVars, authVars,
                  stationDetails >>

\* handleSelectSuggestion, from a click on one of the suggestions shown.
HandleSelectSuggestion ==
  \E k \in 1 .. Len(locationSuggestions) :
    LET suggestion == locationSuggestions[k]
        displayName == DisplayName(suggestion)
        coords == Some([lat |-> suggestion.lat, lon |-> suggestion.lon])
    IN  /\ Update([app EXCEPT !.location = displayName,
                              !.locationQuery = suggestion.name,
                              !.coordinates = coords,
                              !.locationSuggestions = <<>>,
                              !.locationSuggestionError = Null], FALSE)
        /\ IF IsNull(user)
           THEN UNCHANGED saveVars
           ELSE SaveLocation("suggestion", app, Trim(displayName),
                             Trim(suggestion.name), coords)
        /\ UNCHANGED << restOfEffects, trendVars, apiVars, dbRecords,
                        authVars >>

\* The store accepts the document of a call of addRecord; a listener of the
\* collection has a new snapshot to deliver.
StoreAccepts ==
  \E i \in 1 .. Len(saveRuns) :
    /\ saveRuns[i].stage = "pending"
    /\ LET id == Len(dbRecords) + 1
       IN  /\ dbRecords' =
                InsertByUpdatedAt(dbRecords, [id |-> id, data |-> saveRuns[i].doc])
           /\ saveRuns' = [saveRuns EXCEPT ![i].stage = "stored", ![i].id = id]
    /\ snapshotDue' = listening
    /\ UNCHANGED << inputVars, wtVars, fcVars, trendVars, apiVars, weatherVars,
                    suggestVars, recordVars, listening, isSaving, saveMessage,
                    savedId, authVars, stationDetails >>

\* addRecord resolves: the rest of saveLocation and, for the save button,
\* the `finally` of handleSave.
SaveResolves ==
  \E i \in 1 .. Len(saveRuns) :
    /\ saveRuns[i].stage = "stored"
    /\ Update([app EXCEPT !.selectedRecordId = Some(saveRuns[i].id),
                          !.coordinates = saveRuns[i].coordinates,
                          !.location = saveRuns[i].locationName,
                          !.locationQuery = saveRuns[i].locationQuery,
                          !.locationSuggestions = <<>>,
                          !.locationSuggestionError = Null], FALSE)
    /\ saveRuns' = WithoutRun(saveRuns, i)
    /\ savedId' = Some(saveRuns[i].id)
    /\ saveMessage' = "saved"
    /\ isSaving' = IF saveRuns[i].via = "button" THEN FALSE ELSE isSaving
    /\ UNCHANGED << restOfEffects, trendVars, apiVars, dbRecords, authVars >>

\* addRecord rejects: the `catch` of the caller and, for the save button,
\* the `finally` of handleSave.
SaveRejects ==
  \E i \in 1 .. Len(saveRuns) :
    /\ saveRuns[i].stage = "pending"
    /\ saveRuns' = WithoutRun(saveRuns, i)
    /\ saveMessage' =
         IF saveRuns[i].via = "button" THEN "failed" ELSE "failedSuggestion"
    /\ isSaving' = IF saveRuns[i].via = "button" THEN FALSE ELSE isSaving
    /\ UNCHANGED << inputVars, wtVars, fcVars, trendVars, apiVars, weatherVars,
                    suggestVars, recordVars, storeVars, savedId, authVars,
                    stationDetails >>

\* The listener delivers the collection: setRecords with new record
\* objects.
SnapshotDelivered ==
  /\ listening
  /\ snapshotDue
  /\ ~IsNull(user)
  /\ Update([app EXCEPT
               !.records = [ i \in 1 .. Len(dbRecords) |->
                               MapDoc(user[1], dbRecords[i]) ],
               !.snapshotDue = FALSE], TRUE)
  /\ UNCHANGED << restOfEffects, trendVars, apiVars, dbRecords, saveVars,
                  authVars >>

\* The signed-in user without a saved record has typed "Baja"; the weather
\* of Baja is shown and a search has delivered its list of suggestions.
InitSave ==
  /\ NearestIdle
  /\ TrendIdle
  /\ ApiIdle
  /\ location = "Baja"
  /\ locationQuery = "Baja"
  /\ weatherData = Some("Baja")
  /\ weatherLoading = FALSE
  /\ weatherError = Null
  /\ weatherRuns = <<>>
  /\ locationSuggestions \in SearchResults
  /\ locationSuggestionLoading = FALSE
  /\ locationSuggestionError = Null
  /\ suggestTimer = Null
  /\ suggestRuns = <<>>
  /\ inputAge = DebounceSteps
  /\ RecordsIdle
  /\ StoreIdle
  /\ SaveIdle
  /\ AuthIdle
  /\ stationDetails = Null

\* The user picks suggestions and saves records.
NextSave ==
  \/ HandleSave
  \/ HandleSelectSuggestion
  \/ StoreAccepts
  \/ SaveResolves
  \/ SaveRejects
  \/ SnapshotDelivered
  \/ WeatherResolves
  \/ WeatherRejects

SpecSave == InitSave /\ [][NextSave]_vars

\* The record of the last save that succeeded is in the list delivered.
SavedRecordListed ==
  /\ ~IsNull(savedId)
  /\ \E i \in 1 .. Len(records) : records[i].id = savedId[1]

\* C26: once a save has succeeded and the listener has delivered a list
\* with the new record, the selected record is the new record (as long as
\* no other save is under way); and for a
\* signed-in user with a non-empty list, selectedRecordId is the id of a
\* record of the list.
C26_SelectionAfterSave ==
  /\ (~IsNull(user) /\ SavedRecordListed /\ saveRuns = <<>>) =>
       selectedRecordId = savedId
  /\ (~IsNull(user) /\ Len(records) > 0) => ~IsNull(selectedRecord)

\* The second half of C26 alone.
C26_SelectionInList ==
  (~IsNull(user) /\ Len(records) > 0) => ~IsNull(selectedRecord)

\* ---------------------------------------------------- the debounced search

\* The document of a record named Baja, saved from the form with the weather
\* of Baja shown.
BajaDocument ==
  [ id |-> 1,
    data |-> [ locationName |-> Some("Baja"),
               locationQuery |-> Some("Baja"),
               ownerUid |-> Some("uid"),
               createdAt |-> Some(1),
               updatedAt |-> Some(1),
               weatherSnapshot |-> Some("Baja") ] ]

\* The page after the signed-in user has saved Baja as the only record: it
\* is listed and selected, and the form and the weather section show it.
SavedBaja ==
  /\ location = "Baja"
  /\ locationQuery = "Baja"
  /\ weatherData = Some("Baja")
  /\ weatherLoading = FALSE
  /\ weatherError = Null
  /\ weatherRuns = <<>>
  /\ locationSuggestions = <<>>
  /\ locationSuggestionLoading = FALSE
  /\ locationSuggestionError = Null
  /\ suggestTimer = Null
  /\ suggestRuns = <<>>
  /\ inputAge = DebounceSteps
  /\ records = << MapDoc("uid", BajaDocument) >>
  /\ selectedRecordId = Some(1)
  /\ dbRecords = << BajaDocument >>
  /\ listening = TRUE
  /\ snapshotDue = FALSE
  /\ saveRuns = <<>>
  /\ isSaving = FALSE
  /\ saveMessage = "saved"
  /\ savedId = Some(1)
  /\ AuthIdle
  /\ stationDetails = Null

\* The signed-in user has no record and an empty form, or has saved Baja.
InitSuggest ==
  /\ NearestIdle
  /\ TrendIdle
  /\ ApiIdle
  /\ (AppIdle \/ SavedBaja)

\* The user edits the location field and signs out while time passes and
\* the searches and weather requests complete.
NextSuggest ==
  \/ HandleLocationChange
  \/ Tick
  \/ SuggestTimerFires
  \/ SearchResolves
  \/ SearchRejects
  \/ WeatherResolves
  \/ WeatherRejects
  \/ HandleSignOut
  \/ AuthStateChanges
  \/ ProviderResolves
  \/ ProviderRejects
  \/ AuthRender

SpecSuggest == InitSuggest /\ [][NextSuggest]_vars

\* A step that calls searchLocations: the search it adds.
SearchIssued ==
  Len(suggestRuns') = Len(suggestRuns) + 1

\* A step in which the result of search i replaces locationSuggestions.
ResultApplied(i) ==
  /\ suggestRuns' = WithoutRun(suggestRuns, i)
  /\ locationSuggestions' # locationSuggestions

\* C27: a search is issued only by a signed-in user, for the trimmed input
\* of at least 2 characters that differs from the selected record's name,
\* and only after the input has stayed unchanged for 400 ms; the result of
\* a search replaces locationSuggestions only when the search is not
\* superseded: its run is not cancelled and its query is still the trimmed
\* input.
C27_Debounce ==
  [][ /\ SearchIssued =>
          LET run == suggestRuns'[Len(suggestRuns')]
          IN  /\ ~IsNull(user)
              /\ run.query = Trim(location)
              /\ Length(run.query) >= 2
              /\ (IsNull(selectedRecord)
                    \/ run.query # Trim(selectedRecord[1].locationName))
              /\ inputAge >= DebounceSteps
      /\ (Len(suggestRuns') < Len(suggestRuns)
            /\ locationSuggestions' # locationSuggestions) =>
          \E i \in 1 .. Len(suggestRuns) :
            /\ ResultApplied(i)
            /\ ~suggestRuns[i].cancelled
            /\ suggestRuns[i].query = Trim(location)
            /\ ~IsNull(user)
    ]_vars

\* Suggestions are shown while a superseded search is still in flight.
C27_Witness ==
  /\ Len(suggestRuns) >= 1
  /\ suggestRuns[1].cancelled
  /\ locationSuggestions # <<>>
  /\ ~IsNull(selectedRecord)

\* ------------------------------------------------------------ signing out

\* The signed-in user has typed Baja, or has saved it.
InitSignOut ==
  \/ InitSave
  \/ (NearestIdle /\ TrendIdle /\ ApiIdle /\ SavedBaja)

\* The user saves records, signs out and signs in again.
NextSignOut ==
  \/ HandleSave
  \/ HandleSelectSuggestion
  \/ StoreAccepts
  \/ SaveResolves
  \/ SaveRejects
  \/ SnapshotDelivered
  \/ WeatherResolves
  \/ WeatherRejects
  \/ HandleSignIn
  \/ HandleSignOut
  \/ AuthStateChanges
  \/ ProviderResolves
  \/ ProviderRejects
  \/ AuthRender

SpecSignOut == InitSignOut /\ [][NextSignOut]_vars

\* C29: whenever the user is null (and all effects have run), the page
\* holds no user data.
C29_SignedOutState ==
  IsNull(user) =>
    /\ records = <<>>
    /\ selectedRecordId = Null
    /\ location = ""
    /\ locationQuery = ""
    /\ coordinates = Null
    /\ weatherData = Null
    /\ waterData = Null
    /\ waterTemperatureData = Null
    /\ forecastData = Null
    /\ stationDetails = Null

\* A step that calls addRecord: the call it adds.
AddRecordCalled ==
  Len(saveRuns') = Len(saveRuns) + 1

\* A step in which the store takes the document of call i.
DocumentStored(i) ==
  /\ i \in 1 .. Len(saveRuns)
  /\ Len(saveRuns') = Len(saveRuns)
  /\ saveRuns[i].stage = "pending"
  /\ saveRuns'[i].stage = "stored"

\* C30: addRecord is called only for a signed-in user, with that user's uid
\* and a payload whose trimmed locationName and locationQuery are not empty;
\* a stored document carries the caller's uid as ownerUid and no key with an
\* undefined value; and isSaving is true only while a call made by
\* handleSave is in flight.
C30_SaveGuard ==
  [][ /\ AddRecordCalled =>
          LET run == saveRuns'[Len(saveRuns')]
          IN  /\ ~IsNull(user)
              /\ run.uid = user[1]
              /\ {"locationName", "locationQuery"} \subseteq DOMAIN run.doc
              /\ Trim(run.doc.locationName[1]) # ""
              /\ Trim(run.doc.locationQuery[1]) # ""
      /\ \A i \in 1 .. Len(saveRuns) :
            DocumentStored(i) =>
              \E k \in 1 .. Len(dbRecords') :
                /\ dbRecords'[k].id = saveRuns'[i].id
                /\ \A d \in 1 .. Len(dbRecords) : dbRecords[d].id # saveRuns'[i].id
                /\ "ownerUid" \in DOMAIN dbRecords'[k].data
                /\ dbRecords'[k].data.ownerUid = Some(saveRuns[i].uid)
                /\ \A key \in DOMAIN dbRecords'[k].data :
                     ~IsNull(dbRecords'[k].data[key])
      /\ isSaving' => \E i \in 1 .. Len(saveRuns') : saveRuns'[i].via = "button"
    ]_vars

\* A save of the button has failed on a place without a query: addRecord
\* was not called.
C30_Witness ==
  /\ saveRuns = <<>>
  /\ dbRecords = <<>>
  /\ saveMessage = "failed"
  /\ ~isSaving
  /\ location # ""
  /\ locationQuery = ""

\* The signed-in user of InitWeather signs out and in again while editing
\* the location field.
NextAuth ==
  \/ HandleSignIn
  \/ HandleSignOut
  \/ AuthStateChanges
  \/ ProviderResolves
  \/ ProviderRejects
  \/ AuthRender
  \/ HandleLocationChange
  \/ WeatherResolves
  \/ WeatherRejects

SpecAuth == InitWeather /\ [][NextAuth]_vars

\* C25: at most one identity-provider call is in flight at any time, and
\* isAuthActionRunning is false whenever none is in flight.
C25_AuthMutualExclusion ==
  /\ Len(authCalls) <= 1
  /\ (authCalls = <<>> => ~isAuthActionRunning)

\* A call made while a provider call is in flight has returned at its guard.
C25_Witness ==
  /\ authLast = "returned"
  /\ Len(authCalls) = 1

\* ------------------------------------------------- the fallback's probing

\* The number of stations the probing may ask: min(10, allStations.length).
ProbeLimit == IF Len(allStations) < 10 THEN Len(allStations) ELSE 10

\* C21: the probing asks the stations of the list one after the other, in
\* list order and never more than the first 10; it asks the next station
\* only after a probe without a series; it ends with the station of the
\* first probe that delivered a series as the only candidate, or, after the
\* last of the first 10 stations has none, with forecastData = null and
\* forecastError = null.
C21_FallbackProbes ==
  [][ /\ probeIndex' # probeIndex =>
           /\ probeIndex' = probeIndex + 1
           /\ probeIndex' <= 10
           /\ probeIndex' <= Len(allStations')
           /\ probeIndex > 0 => testForecast' \in {"empty", "reject"}
      /\ (fcPc = "probe" /\ fcPc' # "probe") =>
           \/ /\ testForecast' = "series"
              /\ stationsWithForecast' = << allStations[probeIndex] >>
           \/ /\ testForecast' \in {"empty", "reject"}
              /\ probeIndex = ProbeLimit
              /\ stationsWithForecast' = <<>>
              /\ forecastData' = Null
              /\ forecastError' = Null ]_vars

\* Eleven stations are listed, the probing has asked the first ten, none had
\* a forecast, and the effect has given up.
C21_Witness ==
  /\ Len(allStations) = 11
  /\ probeIndex = 10
  /\ testForecast \in {"empty", "reject"}
  /\ fcExit = "noStations"
  /\ forecastData = Null
  /\ forecastError = Null

\* -------------------------------------------------- order of invocations

\* A request of loadForecast is in flight.
FcRequestInFlight ==
  fcPc \in {"home", "getStations", "getVariableStations", "probe", "nearest"}

\* A request of loadWaterTemperatureData is in flight.
WtRequestInFlight == wtPc \in {"getWaters", "getMeasurements"}

C23_CancelledRunsWriteNothing ==
  [][ /\ fcCancelled =>
           UNCHANGED << forecastData, forecastError, forecastStationId,
                        forecastLoading >>
      /\ wtCancelled =>
           UNCHANGED << waterTemperatureData, waterTemperatureError,
                        waterTemperatureLoading >> ]_vars

====
